----------------------------- MODULE FetchProofs ----------------------------
(***************************************************************************)
(* Proofs about BlockQueue and about Fetch, which uses it, for any number  *)
(* of peers, blocks and slots.                                             *)
(*                                                                         *)
(* The key is that a part in flight, in a request or in the hands of a     *)
(* call, belongs to a slot of the cache that still waits for it: so no     *)
(* block is handed out while a part of it is in flight, every delivery     *)
(* finds its slot, and a block's missing parts stay tasks.                 *)
(*                                                                         *)
(* The fetchers are shown to use the queue as BlockQueue allows, and to    *)
(* keep track of every request: one that the queue remembers is pending in *)
(* the fetcher, about to be sent or answered, or about to be revoked.      *)
(***************************************************************************)
EXTENDS Fetch, TLAPS

\* Tasks are of scheduled headers.
PoolInv == \A k \in Kind : \A h \in taskPool[k] : h <= head

\* Slots are of scheduled headers that were not handed out; the first
\* indexIncomplete ones are complete.
StoreInv ==
  /\ resultOffset <= head + 1
  /\ \A h \in created : resultOffset <= h /\ h <= head
  /\ \A j \in 0 .. indexIncomplete - 1 : AllDone(resultOffset + j)

\* What is in flight is still missing in a slot.
InFlight ==
  \A k \in Kind :
    /\ \A p \in Peer : \A h \in pendPool[k][p] : h \in created /\ k \in missing[h]
    /\ \A h \in InHand(k) : h \in created /\ k \in missing[h]

\* Whoever completes the next block while Results waits is going to signal.
WaitInv ==
  results = "wait" =>
    /\ ~closed
    /\ HasCompletedItems => call.op = "reserve" \/ (call.op = "deliver" /\ call.accepted)

\* The headers of a call are sorted apart, and a peer that reserves has no request.
CallInv ==
  /\ call.op = "reserve" => call.send \cap call.skip = {} /\ pendPool[call.kind][call.peer] = {}
  /\ call.op = "deliver" => call.good \cap call.rest = {}

IInv == TypeOK /\ TasksKept /\ PoolInv /\ StoreInv /\ InFlight /\ WaitInv /\ CallInv

\* Init establishes the invariant.
LEMMA InitIInv == Init => IInv
<1> SUFFICES ASSUME Init PROVE IInv
  OBVIOUS
<1>1. TypeOK
  <2>1. call \in Call /\ missing \in [Number -> SUBSET Kind] /\ created \in SUBSET Number
    BY DEF Init, Call
  <2>2. /\ taskPool \in [Kind -> SUBSET Number] /\ taskQueue \in [Kind -> SUBSET Number]
        /\ pendPool \in [Kind -> [Peer -> SUBSET Number]] /\ lacking \in [Peer -> SUBSET Number]
    BY DEF Init
  <2>3. head \in 0 .. MaxNumber /\ resultOffset \in 1 .. MaxNumber + 1 /\ indexIncomplete \in 0 .. CacheLimit
    BY QueueAssumption DEF Init
  <2> QED BY <2>1, <2>2, <2>3 DEF Init, TypeOK
<1>2. TasksKept
  BY DEF Init, TasksKept, OnePlace, NothingForgotten, InHand, Idle, Number
<1>3. PoolInv /\ StoreInv /\ InFlight /\ WaitInv /\ CallInv
  BY DEF Init, CallInv, PoolInv, StoreInv, InFlight, WaitInv, InHand, Idle, AllDone
<1> QED BY <1>1, <1>2, <1>3 DEF IInv

\* A call of reserveHeaders has the fields of one.
LEMMA ReserveCall ==
  ASSUME TypeOK, call.op = "reserve"
  PROVE  call \in [op : {"reserve"}, kind : Kind, peer : Peer, count : Capacities,
                   send : SUBSET Number, skip : SUBSET Number]
BY DEF TypeOK, Call, Idle

\* A call of deliver has the fields of one.
LEMMA DeliverCall ==
  ASSUME TypeOK, call.op = "deliver"
  PROVE  call \in [op : {"deliver"}, kind : Kind, peer : Peer, accepted : BOOLEAN,
                   good : SUBSET Number, rest : SUBSET Number]
BY DEF TypeOK, Call, Idle

\* What GetCompleted does: it takes limit complete blocks from the front, and
\* the blocks the new index counts are complete.
LEMMA Taken ==
  ASSUME TypeOK, StoreInv, GetCompleted
  PROVE  \E limit \in Nat :
           /\ resultOffset' = resultOffset + limit
           /\ created' = created \ (resultOffset .. resultOffset + limit - 1)
           /\ \A j \in 0 .. limit - 1 : AllDone(resultOffset + j)
           /\ indexIncomplete' \in 0 .. CacheLimit
           /\ \A j \in 0 .. indexIncomplete' - 1 : AllDone(resultOffset + limit + j)
           /\ resultOffset' \in 1 .. MaxNumber + 1 /\ resultOffset' <= head + 1
<1>1. PICK completed \in 0 .. CacheLimit :
        /\ Completed(completed)
        /\ LET limit == IF MaxResults > completed THEN completed ELSE MaxResults
           IN  /\ created' = created \ (resultOffset .. resultOffset + limit - 1)
               /\ resultOffset' = resultOffset + limit
               /\ indexIncomplete' = completed - limit
  BY DEF GetCompleted
<1> DEFINE limit == IF MaxResults > completed THEN completed ELSE MaxResults
<1>2. limit \in Nat /\ limit <= completed /\ completed \in Nat /\ CacheLimit \in Nat
  BY QueueAssumption
<1>3. \A j \in 0 .. completed - 1 : AllDone(resultOffset + j)
  <2> SUFFICES ASSUME NEW j \in 0 .. completed - 1 PROVE AllDone(resultOffset + j)
    OBVIOUS
  <2>1. indexIncomplete \in Nat /\ j \in Nat /\ j < completed
    BY <1>2 DEF TypeOK
  <2>2. CASE j < indexIncomplete
    BY <2>1, <2>2 DEF StoreInv
  <2>3. CASE indexIncomplete <= j
    <3>1. j \in indexIncomplete .. completed - 1
      BY <1>2, <2>1, <2>3
    <3> QED BY <1>1, <3>1 DEF Completed
  <2> QED BY <2>1, <2>2, <2>3
<1>4. \A j \in 0 .. limit - 1 : AllDone(resultOffset + j)
  BY <1>2, <1>3
<1>5. \A j \in 0 .. (completed - limit) - 1 : AllDone(resultOffset + limit + j)
  <2> SUFFICES ASSUME NEW j \in 0 .. (completed - limit) - 1 PROVE AllDone(resultOffset + limit + j)
    OBVIOUS
  <2>1. limit + j \in 0 .. completed - 1 /\ resultOffset + limit + j = resultOffset + (limit + j)
    BY <1>2 DEF TypeOK
  <2> HIDE DEF limit
  <2> QED BY <2>1, <1>3
<1>6. resultOffset + limit <= head + 1
  <2>1. CASE limit = 0
    BY <2>1, <1>2 DEF StoreInv, TypeOK
  <2>2. CASE limit # 0
    <3>1. limit - 1 \in 0 .. limit - 1
      BY <1>2, <2>2
    <3>2. resultOffset + (limit - 1) \in created
      BY <1>4, <3>1 DEF AllDone
    <3> HIDE DEF limit
    <3> QED BY <3>2, <1>2 DEF StoreInv, TypeOK
  <2> QED BY <2>1, <2>2
<1>7. completed - limit \in 0 .. CacheLimit
  BY <1>2
<1>8. /\ resultOffset' = resultOffset + limit /\ indexIncomplete' = completed - limit
      /\ created' = created \ (resultOffset .. resultOffset + limit - 1)
  BY <1>1
<1> HIDE DEF limit
<1>9. resultOffset' \in 1 .. MaxNumber + 1
  BY <1>2, <1>6, <1>8, QueueAssumption DEF TypeOK
<1> QED BY <1>2, <1>4, <1>5, <1>6, <1>7, <1>8, <1>9

\* Every step keeps the types.
LEMMA TypeKept ==
  ASSUME TypeOK, StoreInv, [Next]_vars
  PROVE  TypeOK'
<1>1. CASE Schedule
  BY <1>1, QueueAssumption DEF Schedule, storeVars, TypeOK, Call, Idle, Number, Kind, StoreInv, AllDone
<1>2. ASSUME NEW k \in Kind, NEW p \in Peer, NEW c \in Capacities, Reserve(k, p, c) PROVE TypeOK'
  BY <1>2, QueueAssumption DEF Reserve, taskVars, storeVars, TypeOK, Call, Idle, Number, Kind, StoreInv, AllDone
<1>3. ASSUME NEW k \in Kind, NEW p \in Peer, NEW good \in SUBSET Number, NEW empty \in BOOLEAN, Deliver(k, p, good, empty) PROVE TypeOK'
  BY <1>3, QueueAssumption DEF Deliver, storeVars, TypeOK, Call, Idle, Number, Kind, StoreInv, AllDone
<1>4. ASSUME NEW k \in Kind, NEW p \in Peer, Expire(k, p) PROVE TypeOK'
  BY <1>4, QueueAssumption DEF Expire, storeVars, TypeOK, Call, Idle, Number, Kind, StoreInv, AllDone
<1>5. ASSUME NEW p \in Peer, Revoke(p) PROVE TypeOK'
  BY <1>5, QueueAssumption DEF Revoke, storeVars, TypeOK, Call, Idle, Number, Kind, StoreInv, AllDone
<1>6. ASSUME NEW h \in Number, ReserveHeader(h) PROVE TypeOK'
  <2>1. call \in [op : {"reserve"}, kind : Kind, peer : Peer, count : Capacities,
                  send : SUBSET Number, skip : SUBSET Number]
    BY <1>6, ReserveCall DEF ReserveHeader, Reserving
  <2>2. call' \in [op : {"reserve"}, kind : Kind, peer : Peer, count : Capacities,
                   send : SUBSET Number, skip : SUBSET Number]
    BY <1>6, <2>1 DEF ReserveHeader
  <2>3. call' \in Call
    BY <2>2 DEF Call
  <2>4. created' \in SUBSET Number /\ missing' \in [Number -> SUBSET Kind]
    BY <1>6 DEF ReserveHeader, AddFetch, TypeOK, Outstanding
  <2>5. taskQueue' \in [Kind -> SUBSET Number] /\ taskPool' \in [Kind -> SUBSET Number]
    BY <1>6 DEF ReserveHeader, TypeOK
  <2> QED BY <1>6, <2>3, <2>4, <2>5 DEF ReserveHeader, AddFetch, TypeOK
<1>7. ASSUME NEW h \in Number, Reconstruct(h) PROVE TypeOK'
  BY <1>7, QueueAssumption DEF Reconstruct, IsFirst, TypeOK, Call, Idle, Number, Kind, StoreInv, AllDone
<1>8. CASE ReserveReturn
  BY <1>8, QueueAssumption DEF ReserveReturn, Signal, storeVars, TypeOK, Call, Idle, Number, Kind, StoreInv, AllDone
<1>9. CASE DeliverReturn
  BY <1>9, QueueAssumption DEF DeliverReturn, Signal, storeVars, TypeOK, Call, Idle, Number, Kind, StoreInv, AllDone
<1>10. CASE ResultsCall
  BY <1>10, QueueAssumption DEF ResultsCall, taskVars, storeVars, TypeOK, Call, Idle, Number, Kind, StoreInv, AllDone
<1>11. CASE ResultsLock
  BY <1>11, QueueAssumption DEF ResultsLock, taskVars, storeVars, TypeOK, Call, Idle, Number, Kind, StoreInv, AllDone
<1>12. CASE ResultsWoken
  BY <1>12, QueueAssumption DEF ResultsWoken, taskVars, storeVars, TypeOK, Call, Idle, Number, Kind, StoreInv, AllDone
<1>13. CASE GetCompleted
  <2>1. resultOffset' \in 1 .. MaxNumber + 1 /\ indexIncomplete' \in 0 .. CacheLimit
    BY <1>13, Taken
  <2>2. created' \in SUBSET Number
    BY <1>13 DEF GetCompleted, TypeOK
  <2>3. threshold' \in 1 .. CacheLimit /\ results' \in {"done", "idle"}
    BY <1>13 DEF GetCompleted
  <2> QED BY <1>13, <2>1, <2>2, <2>3 DEF GetCompleted, taskVars, TypeOK
<1>14. CASE Close
  BY <1>14, QueueAssumption DEF Close, Signal, taskVars, storeVars, TypeOK, Call, Idle, Number, Kind, StoreInv, AllDone
<1>15. CASE UNCHANGED vars
  BY <1>15, QueueAssumption DEF vars, taskVars, storeVars, TypeOK, Call, Idle, Number, Kind, StoreInv, AllDone
<1> QED BY <1>1, <1>2, <1>3, <1>4, <1>5, <1>6, <1>7, <1>8, <1>9, <1>10, <1>11, <1>12, <1>13, <1>14, <1>15
       DEF Next, QueueStep, ResultsStep

\* Every step keeps tasks below the head.
LEMMA PoolKept ==
  ASSUME TypeOK, PoolInv, [Next]_vars
  PROVE  PoolInv'
<1>1. CASE Schedule
  BY <1>1, QueueAssumption DEF Schedule, storeVars, TypeOK, Call, Idle, Number, Kind, PoolInv
<1>2. ASSUME NEW k \in Kind, NEW p \in Peer, NEW c \in Capacities, Reserve(k, p, c) PROVE PoolInv'
  BY <1>2, QueueAssumption DEF Reserve, taskVars, storeVars, TypeOK, Call, Idle, Number, Kind, PoolInv
<1>3. ASSUME NEW k \in Kind, NEW p \in Peer, NEW good \in SUBSET Number, NEW empty \in BOOLEAN, Deliver(k, p, good, empty) PROVE PoolInv'
  BY <1>3, QueueAssumption DEF Deliver, storeVars, TypeOK, Call, Idle, Number, Kind, PoolInv
<1>4. ASSUME NEW k \in Kind, NEW p \in Peer, Expire(k, p) PROVE PoolInv'
  BY <1>4, QueueAssumption DEF Expire, storeVars, TypeOK, Call, Idle, Number, Kind, PoolInv
<1>5. ASSUME NEW p \in Peer, Revoke(p) PROVE PoolInv'
  BY <1>5, QueueAssumption DEF Revoke, storeVars, TypeOK, Call, Idle, Number, Kind, PoolInv
<1>6. ASSUME NEW h \in Number, ReserveHeader(h) PROVE PoolInv'
  BY <1>6, QueueAssumption DEF ReserveHeader, Reserving, AddFetch, IsFirst, Throttled, TypeOK, Call, Idle, Number, Kind, PoolInv
<1>7. ASSUME NEW h \in Number, Reconstruct(h) PROVE PoolInv'
  BY <1>7, QueueAssumption DEF Reconstruct, IsFirst, TypeOK, Call, Idle, Number, Kind, PoolInv
<1>8. CASE ReserveReturn
  BY <1>8, QueueAssumption DEF ReserveReturn, Signal, storeVars, TypeOK, Call, Idle, Number, Kind, PoolInv
<1>9. CASE DeliverReturn
  BY <1>9, QueueAssumption DEF DeliverReturn, Signal, storeVars, TypeOK, Call, Idle, Number, Kind, PoolInv
<1>10. CASE ResultsCall
  BY <1>10, QueueAssumption DEF ResultsCall, taskVars, storeVars, TypeOK, Call, Idle, Number, Kind, PoolInv
<1>11. CASE ResultsLock
  BY <1>11, QueueAssumption DEF ResultsLock, taskVars, storeVars, TypeOK, Call, Idle, Number, Kind, PoolInv
<1>12. CASE ResultsWoken
  BY <1>12, QueueAssumption DEF ResultsWoken, taskVars, storeVars, TypeOK, Call, Idle, Number, Kind, PoolInv
<1>13. CASE GetCompleted
  BY <1>13, QueueAssumption DEF GetCompleted, Completed, taskVars, TypeOK, Call, Idle, Number, Kind, PoolInv
<1>14. CASE Close
  BY <1>14, QueueAssumption DEF Close, Signal, taskVars, storeVars, TypeOK, Call, Idle, Number, Kind, PoolInv
<1>15. CASE UNCHANGED vars
  BY <1>15, QueueAssumption DEF vars, taskVars, storeVars, TypeOK, Call, Idle, Number, Kind, PoolInv
<1> QED BY <1>1, <1>2, <1>3, <1>4, <1>5, <1>6, <1>7, <1>8, <1>9, <1>10, <1>11, <1>12, <1>13, <1>14, <1>15
       DEF Next, QueueStep, ResultsStep

\* Every step keeps the slots of the cache in order.
LEMMA StoreKept ==
  ASSUME IInv, [Next]_vars
  PROVE  StoreInv'
<1>1. CASE Schedule
  <2>1. head' = head + 1 /\ UNCHANGED <<created, missing, resultOffset, indexIncomplete>>
    BY <1>1 DEF Schedule, storeVars
  <2>2. head \in Nat /\ resultOffset \in Nat /\ created \in SUBSET Nat
    BY QueueAssumption DEF IInv, TypeOK, Number
  <2> QED BY <2>1, <2>2 DEF IInv, StoreInv, AllDone
<1>2. ASSUME NEW k \in Kind, NEW p \in Peer, NEW c \in Capacities, Reserve(k, p, c) PROVE StoreInv'
  BY <1>2, QueueAssumption DEF Reserve, taskVars, storeVars, TypeOK, Call, Idle, Number, Kind, IInv, StoreInv, AllDone, PoolInv, TasksKept, OnePlace
<1>3. ASSUME NEW k \in Kind, NEW p \in Peer, NEW good \in SUBSET Number, NEW empty \in BOOLEAN, Deliver(k, p, good, empty) PROVE StoreInv'
  BY <1>3, QueueAssumption DEF Deliver, storeVars, TypeOK, Call, Idle, Number, Kind, IInv, StoreInv, AllDone, PoolInv, TasksKept, OnePlace
<1>4. ASSUME NEW k \in Kind, NEW p \in Peer, Expire(k, p) PROVE StoreInv'
  BY <1>4, QueueAssumption DEF Expire, storeVars, TypeOK, Call, Idle, Number, Kind, IInv, StoreInv, AllDone, PoolInv, TasksKept, OnePlace
<1>5. ASSUME NEW p \in Peer, Revoke(p) PROVE StoreInv'
  BY <1>5, QueueAssumption DEF Revoke, storeVars, TypeOK, Call, Idle, Number, Kind, IInv, StoreInv, AllDone, PoolInv, TasksKept, OnePlace
<1>6. ASSUME NEW h \in Number, ReserveHeader(h) PROVE StoreInv'
  <2>1. h <= head
    BY <1>6, ReserveCall DEF ReserveHeader, Reserving, IsFirst, IInv, TypeOK, TasksKept, OnePlace, PoolInv
  <2>2. /\ UNCHANGED <<head, resultOffset, indexIncomplete>>
        /\ created' \in {created, created \cup {h}}
        /\ created' # created => h >= resultOffset
        /\ \A g \in created : g \in Number => missing'[g] = missing[g]
    BY <1>6, QueueAssumption DEF ReserveHeader, AddFetch, IInv, TypeOK, Number
  <2>3. created \in SUBSET Number
    BY DEF IInv, TypeOK
  <2> QED BY <2>1, <2>2, <2>3 DEF IInv, StoreInv, AllDone
<1>7. ASSUME NEW h \in Number, Reconstruct(h) PROVE StoreInv'
  BY <1>7, QueueAssumption DEF Reconstruct, IsFirst, TypeOK, Call, Idle, Number, Kind, IInv, StoreInv, AllDone, PoolInv, TasksKept, OnePlace
<1>8. CASE ReserveReturn
  BY <1>8, QueueAssumption DEF ReserveReturn, Signal, storeVars, TypeOK, Call, Idle, Number, Kind, IInv, StoreInv, AllDone, PoolInv, TasksKept, OnePlace
<1>9. CASE DeliverReturn
  BY <1>9, QueueAssumption DEF DeliverReturn, Signal, storeVars, TypeOK, Call, Idle, Number, Kind, IInv, StoreInv, AllDone, PoolInv, TasksKept, OnePlace
<1>10. CASE ResultsCall
  BY <1>10, QueueAssumption DEF ResultsCall, taskVars, storeVars, TypeOK, Call, Idle, Number, Kind, IInv, StoreInv, AllDone, PoolInv, TasksKept, OnePlace
<1>11. CASE ResultsLock
  BY <1>11, QueueAssumption DEF ResultsLock, taskVars, storeVars, TypeOK, Call, Idle, Number, Kind, IInv, StoreInv, AllDone, PoolInv, TasksKept, OnePlace
<1>12. CASE ResultsWoken
  BY <1>12, QueueAssumption DEF ResultsWoken, taskVars, storeVars, TypeOK, Call, Idle, Number, Kind, IInv, StoreInv, AllDone, PoolInv, TasksKept, OnePlace
<1>13. CASE GetCompleted
  <2>1. PICK limit \in Nat :
           /\ resultOffset' = resultOffset + limit
           /\ created' = created \ (resultOffset .. resultOffset + limit - 1)
           /\ \A j \in 0 .. limit - 1 : AllDone(resultOffset + j)
           /\ indexIncomplete' \in 0 .. CacheLimit
           /\ \A j \in 0 .. indexIncomplete' - 1 : AllDone(resultOffset + limit + j)
           /\ resultOffset' \in 1 .. MaxNumber + 1 /\ resultOffset' <= head + 1
    BY <1>13, Taken DEF IInv
  <2>2. /\ UNCHANGED <<head, taskPool, taskQueue, pendPool, missing, call>>
        /\ resultOffset \in Nat /\ head \in Nat /\ created \in SUBSET Nat
    BY <1>13, QueueAssumption DEF GetCompleted, taskVars, IInv, TypeOK, Number
  <2>3. \A j \in 0 .. indexIncomplete' - 1 : AllDone(resultOffset + j)'
    <3> SUFFICES ASSUME NEW j \in 0 .. indexIncomplete' - 1
                 PROVE  (resultOffset' + j) \in created' /\ missing'[resultOffset' + j] = {}
      BY DEF AllDone
    <3>1. j \in Nat
      BY <2>1, QueueAssumption
    <3>2. AllDone(resultOffset + limit + j)
      BY <2>1
    <3> QED BY <2>1, <2>2, <3>1, <3>2 DEF AllDone
  <2>4. \A g \in created' : resultOffset' <= g /\ g <= head'
    BY <2>1, <2>2 DEF IInv, StoreInv
  <2> QED BY <2>1, <2>2, <2>3, <2>4 DEF StoreInv
<1>14. CASE Close
  BY <1>14, QueueAssumption DEF Close, Signal, taskVars, storeVars, TypeOK, Call, Idle, Number, Kind, IInv, StoreInv, AllDone, PoolInv, TasksKept, OnePlace
<1>15. CASE UNCHANGED vars
  BY <1>15, QueueAssumption DEF vars, taskVars, storeVars, TypeOK, Call, Idle, Number, Kind, IInv, StoreInv, AllDone, PoolInv, TasksKept, OnePlace
<1> QED BY <1>1, <1>2, <1>3, <1>4, <1>5, <1>6, <1>7, <1>8, <1>9, <1>10, <1>11, <1>12, <1>13, <1>14, <1>15
       DEF Next, QueueStep, ResultsStep

\* Every step keeps what is in flight missing.
LEMMA InFlightKept ==
  ASSUME IInv, [Next]_vars
  PROVE  InFlight'
<1>1. CASE Schedule
  BY <1>1, QueueAssumption DEF Schedule, storeVars, TypeOK, Call, Idle, Number, Kind, IInv, StoreInv, InFlight, InHand, AllDone, TasksKept, OnePlace
<1>2. ASSUME NEW k \in Kind, NEW p \in Peer, NEW c \in Capacities, Reserve(k, p, c) PROVE InFlight'
  BY <1>2, QueueAssumption DEF Reserve, taskVars, storeVars, TypeOK, Call, Idle, Number, Kind, IInv, StoreInv, InFlight, InHand, AllDone, TasksKept, OnePlace
<1>3. ASSUME NEW k \in Kind, NEW p \in Peer, NEW good \in SUBSET Number, NEW empty \in BOOLEAN, Deliver(k, p, good, empty) PROVE InFlight'
  <2>1. UNCHANGED <<created, missing>> /\ \A l \in Kind, q \in Peer : pendPool'[l][q] \subseteq pendPool[l][q]
    BY <1>3 DEF Deliver, storeVars, IInv, TypeOK
  <2>2. \A l \in Kind : InHand(l)' \subseteq pendPool[l][p]
    BY <1>3 DEF Deliver, InHand
  <2> QED BY <2>1, <2>2 DEF IInv, InFlight
<1>4. ASSUME NEW k \in Kind, NEW p \in Peer, Expire(k, p) PROVE InFlight'
  BY <1>4, QueueAssumption DEF Expire, storeVars, TypeOK, Call, Idle, Number, Kind, IInv, StoreInv, InFlight, InHand, AllDone, TasksKept, OnePlace
<1>5. ASSUME NEW p \in Peer, Revoke(p) PROVE InFlight'
  BY <1>5, QueueAssumption DEF Revoke, storeVars, TypeOK, Call, Idle, Number, Kind, IInv, StoreInv, InFlight, InHand, AllDone, TasksKept, OnePlace
<1>6. ASSUME NEW h \in Number, ReserveHeader(h) PROVE InFlight'
  <2>1. call \in [op : {"reserve"}, kind : Kind, peer : Peer, count : Capacities,
                  send : SUBSET Number, skip : SUBSET Number]
    BY <1>6, ReserveCall DEF ReserveHeader, Reserving, IInv
  <2>2. /\ created \subseteq created' /\ \A g \in created : missing'[g] = missing[g]
        /\ UNCHANGED pendPool
    BY <1>6 DEF ReserveHeader, AddFetch, IInv, TypeOK
  <2>3. \/ call' = call
        \/ /\ call' \in {[call EXCEPT !.skip = @ \cup {h}], [call EXCEPT !.send = @ \cup {h}]}
           /\ h \in created' /\ call.kind \in missing'[h]
    BY <1>6 DEF ReserveHeader, AddFetch
  <2>4. \A l \in Kind : InHand(l)' \subseteq InHand(l) \cup (IF l = call.kind /\ call' # call THEN {h} ELSE {})
    BY <2>1, <2>3 DEF InHand
  <2> QED BY <2>2, <2>3, <2>4 DEF IInv, InFlight
<1>7. ASSUME NEW h \in Number, Reconstruct(h) PROVE InFlight'
  <2>1. call \in [op : {"deliver"}, kind : Kind, peer : Peer, accepted : BOOLEAN,
                  good : SUBSET Number, rest : SUBSET Number]
    BY <1>7, DeliverCall DEF Reconstruct, IInv
  <2>2. /\ UNCHANGED <<created, pendPool>> /\ h \in InHand(call.kind)
        /\ \A l \in Kind, g \in Number : l \in missing[g] /\ ~(l = call.kind /\ g = h) => l \in missing'[g]
    BY <1>7, <2>1 DEF Reconstruct, IsFirst, InHand, IInv, TypeOK
  <2>3. InHand(call.kind) = call.good \cup call.rest /\ call' = [call EXCEPT !.good = @ \ {h}, !.accepted = TRUE]
    BY <1>7, <2>1 DEF Reconstruct, InHand
  <2>4. \A l \in Kind : InHand(l)' \subseteq InHand(l)
    BY <2>1, <2>3 DEF InHand
  <2>5. h \notin call.rest
    BY <1>7, <2>1 DEF Reconstruct, IsFirst, IInv, CallInv
  <2>6. \A l \in Kind : l = call.kind => h \notin InHand(l)'
    BY <2>1, <2>3, <2>5 DEF InHand
  <2>7. \A q \in Peer : h \notin pendPool[call.kind][q]
    BY <2>1, <2>2 DEF IInv, TasksKept, OnePlace
  <2>8. \A l \in Kind : InHand(l) \subseteq Number /\ \A q \in Peer : pendPool[l][q] \subseteq Number
    BY <2>1 DEF InHand, IInv, TypeOK
  <2>9. ASSUME NEW l \in Kind, NEW q \in Peer, NEW g \in pendPool'[l][q]
        PROVE  g \in created' /\ l \in missing'[g]
    BY <2>2, <2>7, <2>8 DEF IInv, InFlight
  <2>10. ASSUME NEW l \in Kind, NEW g \in InHand(l)'
         PROVE  g \in created' /\ l \in missing'[g]
    <3>1. g \in InHand(l) /\ g \in Number /\ ~(l = call.kind /\ g = h)
      BY <2>4, <2>6, <2>8
    <3> QED BY <2>2, <3>1 DEF IInv, InFlight
  <2> QED BY <2>9, <2>10 DEF InFlight
<1>8. CASE ReserveReturn
  BY <1>8, QueueAssumption DEF ReserveReturn, Signal, storeVars, TypeOK, Call, Idle, Number, Kind, IInv, StoreInv, InFlight, InHand, AllDone, TasksKept, OnePlace
<1>9. CASE DeliverReturn
  BY <1>9, QueueAssumption DEF DeliverReturn, Signal, storeVars, TypeOK, Call, Idle, Number, Kind, IInv, StoreInv, InFlight, InHand, AllDone, TasksKept, OnePlace
<1>10. CASE ResultsCall
  BY <1>10, QueueAssumption DEF ResultsCall, taskVars, storeVars, TypeOK, Call, Idle, Number, Kind, IInv, StoreInv, InFlight, InHand, AllDone, TasksKept, OnePlace
<1>11. CASE ResultsLock
  BY <1>11, QueueAssumption DEF ResultsLock, taskVars, storeVars, TypeOK, Call, Idle, Number, Kind, IInv, StoreInv, InFlight, InHand, AllDone, TasksKept, OnePlace
<1>12. CASE ResultsWoken
  BY <1>12, QueueAssumption DEF ResultsWoken, taskVars, storeVars, TypeOK, Call, Idle, Number, Kind, IInv, StoreInv, InFlight, InHand, AllDone, TasksKept, OnePlace
<1>13. CASE GetCompleted
  <2>1. PICK limit \in Nat :
           /\ resultOffset' = resultOffset + limit
           /\ created' = created \ (resultOffset .. resultOffset + limit - 1)
           /\ \A j \in 0 .. limit - 1 : AllDone(resultOffset + j)
           /\ indexIncomplete' \in 0 .. CacheLimit
           /\ \A j \in 0 .. indexIncomplete' - 1 : AllDone(resultOffset + limit + j)
           /\ resultOffset' \in 1 .. MaxNumber + 1 /\ resultOffset' <= head + 1
    BY <1>13, Taken DEF IInv
  <2>2. /\ UNCHANGED <<head, taskPool, taskQueue, pendPool, missing, call>>
        /\ resultOffset \in Nat /\ head \in Nat /\ created \in SUBSET Nat
    BY <1>13, QueueAssumption DEF GetCompleted, taskVars, IInv, TypeOK, Number
  <2>3. \A g \in created \ created' : missing[g] = {}
    <3> SUFFICES ASSUME NEW g \in created, g \notin created' PROVE missing[g] = {}
      OBVIOUS
    <3>1. g - resultOffset \in 0 .. limit - 1 /\ resultOffset + (g - resultOffset) = g
      BY <2>1, <2>2
    <3> QED BY <2>1, <3>1 DEF AllDone
  <2>4. \A l \in Kind : InHand(l)' = InHand(l)
    BY <2>2 DEF InHand
  <2> QED BY <2>2, <2>3, <2>4 DEF IInv, InFlight
<1>14. CASE Close
  BY <1>14, QueueAssumption DEF Close, Signal, taskVars, storeVars, TypeOK, Call, Idle, Number, Kind, IInv, StoreInv, InFlight, InHand, AllDone, TasksKept, OnePlace
<1>15. CASE UNCHANGED vars
  BY <1>15, QueueAssumption DEF vars, taskVars, storeVars, TypeOK, Call, Idle, Number, Kind, IInv, StoreInv, InFlight, InHand, AllDone, TasksKept, OnePlace
<1> QED BY <1>1, <1>2, <1>3, <1>4, <1>5, <1>6, <1>7, <1>8, <1>9, <1>10, <1>11, <1>12, <1>13, <1>14, <1>15
       DEF Next, QueueStep, ResultsStep

\* Every step keeps every task in one place.
LEMMA OnePlaceKept ==
  ASSUME IInv, [Next]_vars
  PROVE  OnePlace'
<1>1. CASE Schedule
  BY <1>1, QueueAssumption DEF Schedule, storeVars, TypeOK, Call, Idle, Number, Kind, IInv, PoolInv, InHand, TasksKept, OnePlace
<1>2. ASSUME NEW k \in Kind, NEW p \in Peer, NEW c \in Capacities, Reserve(k, p, c) PROVE OnePlace'
  BY <1>2, QueueAssumption DEF Reserve, taskVars, storeVars, TypeOK, Call, Idle, Number, Kind, IInv, PoolInv, InHand, TasksKept, OnePlace
<1>3. ASSUME NEW k \in Kind, NEW p \in Peer, NEW good \in SUBSET Number, NEW empty \in BOOLEAN, Deliver(k, p, good, empty) PROVE OnePlace'
  BY <1>3, QueueAssumption DEF Deliver, storeVars, TypeOK, Call, Idle, Number, Kind, IInv, PoolInv, InHand, TasksKept, OnePlace
<1>4. ASSUME NEW k \in Kind, NEW p \in Peer, Expire(k, p) PROVE OnePlace'
  BY <1>4, QueueAssumption DEF Expire, storeVars, TypeOK, Call, Idle, Number, Kind, IInv, PoolInv, InHand, TasksKept, OnePlace
<1>5. ASSUME NEW p \in Peer, Revoke(p) PROVE OnePlace'
  BY <1>5, QueueAssumption DEF Revoke, storeVars, TypeOK, Call, Idle, Number, Kind, IInv, PoolInv, InHand, TasksKept, OnePlace
<1>6. ASSUME NEW h \in Number, ReserveHeader(h) PROVE OnePlace'
  BY <1>6, QueueAssumption DEF ReserveHeader, Reserving, AddFetch, IsFirst, Throttled, TypeOK, Call, Idle, Number, Kind, IInv, PoolInv, InHand, TasksKept, OnePlace
<1>7. ASSUME NEW h \in Number, Reconstruct(h) PROVE OnePlace'
  <2>1. call \in [op : {"deliver"}, kind : Kind, peer : Peer, accepted : BOOLEAN,
                  good : SUBSET Number, rest : SUBSET Number]
    BY <1>7, DeliverCall DEF Reconstruct, IInv
  <2>2. /\ UNCHANGED <<taskQueue, pendPool>>
        /\ taskPool' = [taskPool EXCEPT ![call.kind] = @ \ {h}]
        /\ h \in call.good /\ h \notin call.rest
        /\ call' = [call EXCEPT !.good = @ \ {h}, !.accepted = TRUE]
    BY <1>7, <2>1 DEF Reconstruct, IsFirst, IInv, CallInv
  <2>3. \A l \in Kind : InHand(l)' = IF l = call.kind THEN InHand(l) \ {h} ELSE InHand(l)
    BY <2>1, <2>2 DEF InHand
  <2>4. h \in InHand(call.kind)
    BY <2>1, <2>2 DEF InHand
  <2> QED BY <2>1, <2>2, <2>3, <2>4 DEF IInv, TypeOK, TasksKept, OnePlace
<1>8. CASE ReserveReturn
  <2>1. call \in [op : {"reserve"}, kind : Kind, peer : Peer, count : Capacities,
                  send : SUBSET Number, skip : SUBSET Number]
    BY <1>8, ReserveCall DEF ReserveReturn, IInv
  <2>2. /\ taskQueue' = [taskQueue EXCEPT ![call.kind] = @ \cup call.skip]
        /\ pendPool' = [pendPool EXCEPT ![call.kind][call.peer] = call.send]
        /\ UNCHANGED taskPool
    BY <1>8 DEF ReserveReturn
  <2>3. \A l \in Kind : InHand(l)' = {}
    BY <1>8 DEF ReserveReturn, InHand, Idle
  <2>4. \A l \in Kind : InHand(l) = IF l = call.kind THEN call.send \cup call.skip ELSE {}
    BY <2>1 DEF InHand
  <2>5. call.send \cap call.skip = {} /\ pendPool[call.kind][call.peer] = {}
    BY <2>1 DEF IInv, CallInv
  <2> QED BY <2>1, <2>2, <2>3, <2>4, <2>5 DEF IInv, TypeOK, TasksKept, OnePlace
<1>9. CASE DeliverReturn
  BY <1>9, QueueAssumption DEF DeliverReturn, Signal, storeVars, TypeOK, Call, Idle, Number, Kind, IInv, PoolInv, InHand, TasksKept, OnePlace
<1>10. CASE ResultsCall
  BY <1>10, QueueAssumption DEF ResultsCall, taskVars, storeVars, TypeOK, Call, Idle, Number, Kind, IInv, PoolInv, InHand, TasksKept, OnePlace
<1>11. CASE ResultsLock
  BY <1>11, QueueAssumption DEF ResultsLock, taskVars, storeVars, TypeOK, Call, Idle, Number, Kind, IInv, PoolInv, InHand, TasksKept, OnePlace
<1>12. CASE ResultsWoken
  BY <1>12, QueueAssumption DEF ResultsWoken, taskVars, storeVars, TypeOK, Call, Idle, Number, Kind, IInv, PoolInv, InHand, TasksKept, OnePlace
<1>13. CASE GetCompleted
  BY <1>13, QueueAssumption DEF GetCompleted, Completed, taskVars, TypeOK, Call, Idle, Number, Kind, IInv, PoolInv, InHand, TasksKept, OnePlace
<1>14. CASE Close
  BY <1>14, QueueAssumption DEF Close, Signal, taskVars, storeVars, TypeOK, Call, Idle, Number, Kind, IInv, PoolInv, InHand, TasksKept, OnePlace
<1>15. CASE UNCHANGED vars
  BY <1>15, QueueAssumption DEF vars, taskVars, storeVars, TypeOK, Call, Idle, Number, Kind, IInv, PoolInv, InHand, TasksKept, OnePlace
<1> QED BY <1>1, <1>2, <1>3, <1>4, <1>5, <1>6, <1>7, <1>8, <1>9, <1>10, <1>11, <1>12, <1>13, <1>14, <1>15
       DEF Next, QueueStep, ResultsStep

\* Every step keeps missing parts among the tasks.
LEMMA ForgottenKept ==
  ASSUME IInv, [Next]_vars
  PROVE  NothingForgotten'
<1>1. CASE Schedule
  BY <1>1, QueueAssumption DEF Schedule, storeVars, TypeOK, Call, Idle, Number, Kind, IInv, StoreInv, InFlight, InHand, AllDone, Outstanding, TasksKept, OnePlace, NothingForgotten
<1>2. ASSUME NEW k \in Kind, NEW p \in Peer, NEW c \in Capacities, Reserve(k, p, c) PROVE NothingForgotten'
  BY <1>2, QueueAssumption DEF Reserve, taskVars, storeVars, TypeOK, Call, Idle, Number, Kind, IInv, StoreInv, InFlight, InHand, AllDone, Outstanding, TasksKept, OnePlace, NothingForgotten
<1>3. ASSUME NEW k \in Kind, NEW p \in Peer, NEW good \in SUBSET Number, NEW empty \in BOOLEAN, Deliver(k, p, good, empty) PROVE NothingForgotten'
  BY <1>3, QueueAssumption DEF Deliver, storeVars, TypeOK, Call, Idle, Number, Kind, IInv, StoreInv, InFlight, InHand, AllDone, Outstanding, TasksKept, OnePlace, NothingForgotten
<1>4. ASSUME NEW k \in Kind, NEW p \in Peer, Expire(k, p) PROVE NothingForgotten'
  BY <1>4, QueueAssumption DEF Expire, storeVars, TypeOK, Call, Idle, Number, Kind, IInv, StoreInv, InFlight, InHand, AllDone, Outstanding, TasksKept, OnePlace, NothingForgotten
<1>5. ASSUME NEW p \in Peer, Revoke(p) PROVE NothingForgotten'
  BY <1>5, QueueAssumption DEF Revoke, storeVars, TypeOK, Call, Idle, Number, Kind, IInv, StoreInv, InFlight, InHand, AllDone, Outstanding, TasksKept, OnePlace, NothingForgotten
<1>6. ASSUME NEW h \in Number, ReserveHeader(h) PROVE NothingForgotten'
  <2>1. call.kind \in Kind
    BY <1>6, ReserveCall DEF ReserveHeader, Reserving, IInv
  <2>2. \A l \in Kind, g \in Number : g \in taskPool[l] =>
           g \in taskPool'[l] \/ (g = h /\ l = call.kind /\ (h < resultOffset \/ l \notin missing'[h]))
    BY <1>6, <2>1 DEF ReserveHeader, IInv, TypeOK
  <2>3. /\ UNCHANGED <<head, resultOffset>>
        /\ h < resultOffset \/ h \in created'
        /\ created' \in {created, created \cup {h}}
        /\ \A g \in created : missing'[g] = missing[g]
        /\ h \in created' /\ h \notin created => missing'[h] = Outstanding(h)
    BY <1>6, QueueAssumption DEF ReserveHeader, AddFetch, IInv, TypeOK, Number
  <2>4. \A g \in resultOffset .. head : g \in Number
    BY QueueAssumption DEF IInv, TypeOK, Number
  <2>5. resultOffset \in Int
    BY DEF IInv, TypeOK
  <2> SUFFICES ASSUME NEW g \in resultOffset .. head
               PROVE  /\ g \notin created' => g \in taskPool'["body"]
                      /\ \A l \in Kind : (IF g \in created' THEN l \in missing'[g] ELSE l \in Outstanding(g)) =>
                            g \in taskPool'[l]
    BY <2>3 DEF NothingForgotten, Outstanding
  <2>6. "body" \in Kind
    BY DEF Kind
  <2>7. /\ g \notin created => g \in taskPool["body"]
        /\ \A l \in Kind : (IF g \in created THEN l \in missing[g] ELSE l \in Outstanding(g)) => g \in taskPool[l]
    BY DEF IInv, TasksKept, NothingForgotten
  <2>8. ~(g < resultOffset)
    BY <2>5
  <2> QED BY <2>2, <2>3, <2>4, <2>6, <2>7, <2>8, Zenon
<1>7. ASSUME NEW h \in Number, Reconstruct(h) PROVE NothingForgotten'
  BY <1>7, QueueAssumption DEF Reconstruct, IsFirst, TypeOK, Call, Idle, Number, Kind, IInv, StoreInv, InFlight, InHand, AllDone, Outstanding, TasksKept, OnePlace, NothingForgotten
<1>8. CASE ReserveReturn
  BY <1>8, QueueAssumption DEF ReserveReturn, Signal, storeVars, TypeOK, Call, Idle, Number, Kind, IInv, StoreInv, InFlight, InHand, AllDone, Outstanding, TasksKept, OnePlace, NothingForgotten
<1>9. CASE DeliverReturn
  BY <1>9, QueueAssumption DEF DeliverReturn, Signal, storeVars, TypeOK, Call, Idle, Number, Kind, IInv, StoreInv, InFlight, InHand, AllDone, Outstanding, TasksKept, OnePlace, NothingForgotten
<1>10. CASE ResultsCall
  BY <1>10, QueueAssumption DEF ResultsCall, taskVars, storeVars, TypeOK, Call, Idle, Number, Kind, IInv, StoreInv, InFlight, InHand, AllDone, Outstanding, TasksKept, OnePlace, NothingForgotten
<1>11. CASE ResultsLock
  BY <1>11, QueueAssumption DEF ResultsLock, taskVars, storeVars, TypeOK, Call, Idle, Number, Kind, IInv, StoreInv, InFlight, InHand, AllDone, Outstanding, TasksKept, OnePlace, NothingForgotten
<1>12. CASE ResultsWoken
  BY <1>12, QueueAssumption DEF ResultsWoken, taskVars, storeVars, TypeOK, Call, Idle, Number, Kind, IInv, StoreInv, InFlight, InHand, AllDone, Outstanding, TasksKept, OnePlace, NothingForgotten
<1>13. CASE GetCompleted
  BY <1>13, QueueAssumption DEF GetCompleted, Completed, taskVars, TypeOK, Call, Idle, Number, Kind, IInv, StoreInv, InFlight, InHand, AllDone, Outstanding, TasksKept, OnePlace, NothingForgotten
<1>14. CASE Close
  BY <1>14, QueueAssumption DEF Close, Signal, taskVars, storeVars, TypeOK, Call, Idle, Number, Kind, IInv, StoreInv, InFlight, InHand, AllDone, Outstanding, TasksKept, OnePlace, NothingForgotten
<1>15. CASE UNCHANGED vars
  BY <1>15, QueueAssumption DEF vars, taskVars, storeVars, TypeOK, Call, Idle, Number, Kind, IInv, StoreInv, InFlight, InHand, AllDone, Outstanding, TasksKept, OnePlace, NothingForgotten
<1> QED BY <1>1, <1>2, <1>3, <1>4, <1>5, <1>6, <1>7, <1>8, <1>9, <1>10, <1>11, <1>12, <1>13, <1>14, <1>15
       DEF Next, QueueStep, ResultsStep

\* Every step that completes the next block signals.
LEMMA WaitKept ==
  ASSUME IInv, [Next]_vars
  PROVE  WaitInv'
<1>1. CASE Schedule
  BY <1>1, QueueAssumption DEF Schedule, storeVars, TypeOK, Call, Idle, Number, Kind, IInv, StoreInv, WaitInv, HasCompletedItems, AllDone, Outstanding
<1>2. ASSUME NEW k \in Kind, NEW p \in Peer, NEW c \in Capacities, Reserve(k, p, c) PROVE WaitInv'
  BY <1>2, QueueAssumption DEF Reserve, taskVars, storeVars, TypeOK, Call, Idle, Number, Kind, IInv, StoreInv, WaitInv, HasCompletedItems, AllDone, Outstanding
<1>3. ASSUME NEW k \in Kind, NEW p \in Peer, NEW good \in SUBSET Number, NEW empty \in BOOLEAN, Deliver(k, p, good, empty) PROVE WaitInv'
  BY <1>3, QueueAssumption DEF Deliver, storeVars, TypeOK, Call, Idle, Number, Kind, IInv, StoreInv, WaitInv, HasCompletedItems, AllDone, Outstanding
<1>4. ASSUME NEW k \in Kind, NEW p \in Peer, Expire(k, p) PROVE WaitInv'
  BY <1>4, QueueAssumption DEF Expire, storeVars, TypeOK, Call, Idle, Number, Kind, IInv, StoreInv, WaitInv, HasCompletedItems, AllDone, Outstanding
<1>5. ASSUME NEW p \in Peer, Revoke(p) PROVE WaitInv'
  BY <1>5, QueueAssumption DEF Revoke, storeVars, TypeOK, Call, Idle, Number, Kind, IInv, StoreInv, WaitInv, HasCompletedItems, AllDone, Outstanding
<1>6. ASSUME NEW h \in Number, ReserveHeader(h) PROVE WaitInv'
  BY <1>6, QueueAssumption DEF ReserveHeader, Reserving, AddFetch, IsFirst, Throttled, TypeOK, Call, Idle, Number, Kind, IInv, StoreInv, WaitInv, HasCompletedItems, AllDone, Outstanding
<1>7. ASSUME NEW h \in Number, Reconstruct(h) PROVE WaitInv'
  BY <1>7, QueueAssumption DEF Reconstruct, IsFirst, TypeOK, Call, Idle, Number, Kind, IInv, StoreInv, WaitInv, HasCompletedItems, AllDone, Outstanding
<1>8. CASE ReserveReturn
  BY <1>8, QueueAssumption DEF ReserveReturn, Signal, storeVars, TypeOK, Call, Idle, Number, Kind, IInv, StoreInv, WaitInv, HasCompletedItems, AllDone, Outstanding
<1>9. CASE DeliverReturn
  BY <1>9, QueueAssumption DEF DeliverReturn, Signal, storeVars, TypeOK, Call, Idle, Number, Kind, IInv, StoreInv, WaitInv, HasCompletedItems, AllDone, Outstanding
<1>10. CASE ResultsCall
  BY <1>10, QueueAssumption DEF ResultsCall, taskVars, storeVars, TypeOK, Call, Idle, Number, Kind, IInv, StoreInv, WaitInv, HasCompletedItems, AllDone, Outstanding
<1>11. CASE ResultsLock
  BY <1>11, QueueAssumption DEF ResultsLock, taskVars, storeVars, TypeOK, Call, Idle, Number, Kind, IInv, StoreInv, WaitInv, HasCompletedItems, AllDone, Outstanding
<1>12. CASE ResultsWoken
  BY <1>12, QueueAssumption DEF ResultsWoken, taskVars, storeVars, TypeOK, Call, Idle, Number, Kind, IInv, StoreInv, WaitInv, HasCompletedItems, AllDone, Outstanding
<1>13. CASE GetCompleted
  BY <1>13, QueueAssumption DEF GetCompleted, Completed, taskVars, TypeOK, Call, Idle, Number, Kind, IInv, StoreInv, WaitInv, HasCompletedItems, AllDone, Outstanding
<1>14. CASE Close
  BY <1>14, QueueAssumption DEF Close, Signal, taskVars, storeVars, TypeOK, Call, Idle, Number, Kind, IInv, StoreInv, WaitInv, HasCompletedItems, AllDone, Outstanding
<1>15. CASE UNCHANGED vars
  BY <1>15, QueueAssumption DEF vars, taskVars, storeVars, TypeOK, Call, Idle, Number, Kind, IInv, StoreInv, WaitInv, HasCompletedItems, AllDone, Outstanding
<1> QED BY <1>1, <1>2, <1>3, <1>4, <1>5, <1>6, <1>7, <1>8, <1>9, <1>10, <1>11, <1>12, <1>13, <1>14, <1>15
       DEF Next, QueueStep, ResultsStep

\* Every step keeps the headers of a call apart.
LEMMA CallKept ==
  ASSUME IInv, [Next]_vars
  PROVE  CallInv'
<1>1. CASE Schedule
  BY <1>1, QueueAssumption DEF Schedule, storeVars, TypeOK, Call, Idle, Number, Kind, IInv, CallInv, TasksKept, OnePlace, InHand
<1>2. ASSUME NEW k \in Kind, NEW p \in Peer, NEW c \in Capacities, Reserve(k, p, c) PROVE CallInv'
  BY <1>2, QueueAssumption DEF Reserve, taskVars, storeVars, TypeOK, Call, Idle, Number, Kind, IInv, CallInv, TasksKept, OnePlace, InHand
<1>3. ASSUME NEW k \in Kind, NEW p \in Peer, NEW good \in SUBSET Number, NEW empty \in BOOLEAN, Deliver(k, p, good, empty) PROVE CallInv'
  BY <1>3, QueueAssumption DEF Deliver, storeVars, TypeOK, Call, Idle, Number, Kind, IInv, CallInv, TasksKept, OnePlace, InHand
<1>4. ASSUME NEW k \in Kind, NEW p \in Peer, Expire(k, p) PROVE CallInv'
  BY <1>4, QueueAssumption DEF Expire, storeVars, TypeOK, Call, Idle, Number, Kind, IInv, CallInv, TasksKept, OnePlace, InHand
<1>5. ASSUME NEW p \in Peer, Revoke(p) PROVE CallInv'
  BY <1>5, QueueAssumption DEF Revoke, storeVars, TypeOK, Call, Idle, Number, Kind, IInv, CallInv, TasksKept, OnePlace, InHand
<1>6. ASSUME NEW h \in Number, ReserveHeader(h) PROVE CallInv'
  BY <1>6, QueueAssumption DEF ReserveHeader, Reserving, AddFetch, IsFirst, Throttled, TypeOK, Call, Idle, Number, Kind, IInv, CallInv, TasksKept, OnePlace, InHand
<1>7. ASSUME NEW h \in Number, Reconstruct(h) PROVE CallInv'
  BY <1>7, QueueAssumption DEF Reconstruct, IsFirst, TypeOK, Call, Idle, Number, Kind, IInv, CallInv, TasksKept, OnePlace, InHand
<1>8. CASE ReserveReturn
  BY <1>8, QueueAssumption DEF ReserveReturn, Signal, storeVars, TypeOK, Call, Idle, Number, Kind, IInv, CallInv, TasksKept, OnePlace, InHand
<1>9. CASE DeliverReturn
  BY <1>9, QueueAssumption DEF DeliverReturn, Signal, storeVars, TypeOK, Call, Idle, Number, Kind, IInv, CallInv, TasksKept, OnePlace, InHand
<1>10. CASE ResultsCall
  BY <1>10, QueueAssumption DEF ResultsCall, taskVars, storeVars, TypeOK, Call, Idle, Number, Kind, IInv, CallInv, TasksKept, OnePlace, InHand
<1>11. CASE ResultsLock
  BY <1>11, QueueAssumption DEF ResultsLock, taskVars, storeVars, TypeOK, Call, Idle, Number, Kind, IInv, CallInv, TasksKept, OnePlace, InHand
<1>12. CASE ResultsWoken
  BY <1>12, QueueAssumption DEF ResultsWoken, taskVars, storeVars, TypeOK, Call, Idle, Number, Kind, IInv, CallInv, TasksKept, OnePlace, InHand
<1>13. CASE GetCompleted
  BY <1>13, QueueAssumption DEF GetCompleted, Completed, taskVars, TypeOK, Call, Idle, Number, Kind, IInv, CallInv, TasksKept, OnePlace, InHand
<1>14. CASE Close
  BY <1>14, QueueAssumption DEF Close, Signal, taskVars, storeVars, TypeOK, Call, Idle, Number, Kind, IInv, CallInv, TasksKept, OnePlace, InHand
<1>15. CASE UNCHANGED vars
  BY <1>15, QueueAssumption DEF vars, taskVars, storeVars, TypeOK, Call, Idle, Number, Kind, IInv, CallInv, TasksKept, OnePlace, InHand
<1> QED BY <1>1, <1>2, <1>3, <1>4, <1>5, <1>6, <1>7, <1>8, <1>9, <1>10, <1>11, <1>12, <1>13, <1>14, <1>15
       DEF Next, QueueStep, ResultsStep

\* Only GetCompleted moves the offset.
LEMMA OffsetMoves ==
  ASSUME resultOffset' # resultOffset, [Next]_vars
  PROVE  GetCompleted
<1>1. CASE Schedule
  BY <1>1 DEF Schedule, storeVars
<1>2. ASSUME NEW k \in Kind, NEW p \in Peer, NEW c \in Capacities, Reserve(k, p, c) PROVE GetCompleted
  BY <1>2 DEF Reserve, taskVars, storeVars
<1>3. ASSUME NEW k \in Kind, NEW p \in Peer, NEW good \in SUBSET Number, NEW empty \in BOOLEAN, Deliver(k, p, good, empty) PROVE GetCompleted
  BY <1>3 DEF Deliver, storeVars
<1>4. ASSUME NEW k \in Kind, NEW p \in Peer, Expire(k, p) PROVE GetCompleted
  BY <1>4 DEF Expire, storeVars
<1>5. ASSUME NEW p \in Peer, Revoke(p) PROVE GetCompleted
  BY <1>5 DEF Revoke, storeVars
<1>6. ASSUME NEW h \in Number, ReserveHeader(h) PROVE GetCompleted
  BY <1>6 DEF ReserveHeader, Reserving, AddFetch
<1>7. ASSUME NEW h \in Number, Reconstruct(h) PROVE GetCompleted
  BY <1>7 DEF Reconstruct, IsFirst, storeVars
<1>8. CASE ReserveReturn
  BY <1>8 DEF ReserveReturn, Signal, storeVars
<1>9. CASE DeliverReturn
  BY <1>9 DEF DeliverReturn, Signal, storeVars
<1>10. CASE ResultsCall
  BY <1>10 DEF ResultsCall, taskVars, storeVars
<1>11. CASE ResultsLock
  BY <1>11 DEF ResultsLock, taskVars, storeVars
<1>12. CASE ResultsWoken
  BY <1>12 DEF ResultsWoken, taskVars, storeVars
<1>13. CASE GetCompleted
  BY <1>13
<1>14. CASE Close
  BY <1>14 DEF Close, Signal, taskVars, storeVars
<1>15. CASE UNCHANGED vars
  BY <1>15 DEF vars, taskVars, storeVars
<1> QED BY <1>1, <1>2, <1>3, <1>4, <1>5, <1>6, <1>7, <1>8, <1>9, <1>10, <1>11, <1>12, <1>13, <1>14, <1>15
       DEF Next, QueueStep, ResultsStep

\* Every step preserves the invariant.
LEMMA NextIInv == IInv /\ [Next]_vars => IInv'
<1> SUFFICES ASSUME IInv, [Next]_vars PROVE IInv'
  OBVIOUS
<1>1. TypeOK' /\ PoolInv' /\ StoreInv' /\ InFlight' /\ WaitInv' /\ CallInv'
  BY TypeKept, PoolKept, StoreKept, InFlightKept, WaitKept, CallKept DEF IInv
<1>2. OnePlace' /\ NothingForgotten'
  BY OnePlaceKept, ForgottenKept
<1>3. ~panicked'
  <2>1. ASSUME NEW h \in Number, Reconstruct(h) PROVE ~panicked'
    <3>1. h \in InHand(call.kind) /\ call.kind \in Kind
      BY <2>1, DeliverCall DEF Reconstruct, IsFirst, InHand, IInv
    <3>2. h \in created /\ ~panicked
      BY <3>1 DEF IInv, InFlight, TasksKept
    <3> QED BY <2>1, <3>2, Zenon DEF Reconstruct
  <2>2. ASSUME ~(\E h \in Number : Reconstruct(h)) PROVE panicked' = panicked
    BY <2>2 DEF Next, QueueStep, ResultsStep, Schedule, Reserve, Deliver, Expire, Revoke, ReserveHeader,
         ReserveReturn, DeliverReturn, ResultsCall, ResultsLock, ResultsWoken, GetCompleted, Close, vars
  <2> QED BY <2>1, <2>2 DEF IInv, TasksKept
<1> QED BY <1>1, <1>2, <1>3 DEF IInv, TasksKept

\* The invariant holds in every behaviour of the queue.
THEOREM Invariance == Spec => []IInv
<1>1. Init => IInv
  BY InitIInv
<1>2. IInv /\ [Next]_vars => IInv'
  BY NextIInv
<1> QED BY <1>1, <1>2, PTL DEF Spec

\* Type correctness of the queue and the cache.
THEOREM TypeCorrect == Spec => []TypeOK
<1>1. IInv => TypeOK
  BY DEF IInv
<1> QED BY <1>1, Invariance, PTL

\* No part of a block is lost, none is fetched twice at a time, and no delivery
\* meets an empty slot, for any number of peers and blocks (queue.go).
THEOREM PartsKept == Spec => []TasksKept
<1>1. IInv => TasksKept
  BY DEF IInv
<1> QED BY <1>1, Invariance, PTL

\* Results does not sleep on a complete block or on a closed queue (queue.go).
THEOREM SleeperWoken == Spec => []NoLostWakeup
<1>1. IInv => NoLostWakeup
  BY DEF IInv, WaitInv, NoLostWakeup, Idle
<1> QED BY <1>1, Invariance, PTL

\* Only complete blocks are handed out, in order and without gaps
\* (resultstore.go, GetCompleted).
THEOREM InOrder == Spec => HandedOutComplete
<1>1. IInv /\ [Next]_vars =>
        [resultOffset' # resultOffset =>
           \A h \in resultOffset .. resultOffset' - 1 : h <= head /\ AllDone(h)]_vars
  <2> SUFFICES ASSUME IInv, [Next]_vars, resultOffset' # resultOffset,
                      NEW h \in resultOffset .. resultOffset' - 1
               PROVE  h <= head /\ AllDone(h)
    BY DEF vars
  <2>1. GetCompleted
    BY OffsetMoves
  <2>2. PICK limit \in Nat : /\ resultOffset' = resultOffset + limit
                            /\ \A j \in 0 .. limit - 1 : AllDone(resultOffset + j)
    BY <2>1, Taken DEF IInv
  <2>3. resultOffset \in Nat
    BY DEF IInv, TypeOK
  <2>4. h - resultOffset \in 0 .. limit - 1 /\ resultOffset + (h - resultOffset) = h
    BY <2>2, <2>3
  <2>5. AllDone(h)
    BY <2>2, <2>4
  <2> QED BY <2>5 DEF IInv, StoreInv, AllDone
<1> QED BY <1>1, Invariance, PTL DEF Spec, HandedOutComplete

-----------------------------------------------------------------------------
(* The fetchers *)


Standing == {"none", "pending", "stale"}
Event == [peer : Peer, join : BOOLEAN]

\* The fetchers' state.  The peer being asked is known while one is.
FetchTyped ==
  /\ conn \in [Peer -> {"out", "up", "leaving"}]
  /\ peering \in [Kind -> Seq(Event)]
  /\ wake \in [Kind -> {"empty", "more", "end"}]
  /\ loop \in [Kind -> LoopState]
  /\ DOMAIN asked = Kind
  /\ \A k \in Kind : loop[k] \in {"reserve", "send", "deliver"} => asked[k] \in Peer
  /\ request \in [Kind -> [Peer -> Standing]]
  /\ finished \in [Kind -> BOOLEAN]

\* The end of the headers is told only when there are no more of them.
EndTold ==
  /\ headers \in {"endBodies", "endReceipts"} => head = MaxNumber
  /\ \A k \in Kind : wake[k] = "end" \/ finished[k] => head = MaxNumber

\* A reservation in progress is for the peer that its fetcher asks.
CallAsked == call.op = "reserve" => loop[call.kind] = "reserve" /\ asked[call.kind] = call.peer

\* A fetcher that still runs has every request the queue remembers in its own
\* books, is about to send it or to deliver its answer, or Revoke follows.
Owned ==
  \A k \in Kind, p \in Peer : pendPool[k][p] # {} =>
    \/ request[k][p] = "pending" \/ conn[p] = "leaving" \/ loop[k] = "done"
    \/ loop[k] \in {"send", "deliver"} /\ asked[k] = p

\* An answer is ignored only after Revoke, or before it is done.
IgnoredRevoked ==
  \A k \in Kind : loop[k] = "deliver" /\ conn[asked[k]] = "out" => pendPool[k][asked[k]] = {}

FInv == FetchTyped /\ EndTold /\ CallAsked /\ Owned /\ IgnoredRevoked

\* A cycle starts with empty queues and loops that have asked for nothing.
LEMMA InitFInv == FetchInit => IInv /\ FInv
<1> SUFFICES ASSUME FetchInit PROVE IInv /\ FInv
  OBVIOUS
<1>1. IInv
  BY InitIInv DEF FetchInit
<1>2. FetchTyped
  BY DEF FetchInit, FetchTyped, LoopState, Standing
<1>3. EndTold /\ CallAsked
  BY DEF FetchInit, Init, Idle, EndTold, CallAsked
<1>4. Owned /\ IgnoredRevoked
  BY DEF FetchInit, Init, Owned, IgnoredRevoked
<1> QED BY <1>1, <1>2, <1>3, <1>4 DEF FInv

\* The oldest peering event names a peer.
LEMMA FirstEvent ==
  ASSUME FetchTyped, NEW k \in Kind, peering[k] # <<>>
  PROVE  Tail(peering[k]) \in Seq(Event) /\ Head(peering[k]).peer \in Peer
<1>1. peering[k] \in Seq(Event)
  BY DEF FetchTyped
<1>2. Tail(peering[k]) \in Seq(Event) /\ Head(peering[k]) \in Event
  BY <1>1
<1> QED BY <1>2 DEF Event

\* Every step of the fetchers and their surroundings uses the queue as it allows.
LEMMA FetchStep ==
  ASSUME FetchTyped, [FetchNext]_allVars
  PROVE  [Next]_vars
<1>1. ASSUME NEW k \in Kind, NEW p \in Peer, Unreserve(k, p) PROVE [Next]_vars
  BY <1>1 DEF Unreserve, Next
<1>2. CASE UNCHANGED allVars
  BY <1>2 DEF allVars
<1>3. CASE HeaderStep
  BY <1>3 DEF HeaderStep, ScheduleHeader, NotifyFetchers, EndOfHeaders, CancelHeaders, NotifyEnd, Next
<1>4. CASE CallStep \/ ResultsWait \/ TakeResults \/ CloseQueue \/ Cancel
  BY <1>4 DEF CallStep, ResultsWait, TakeResults, CloseQueue, Cancel, Next, QueueStep, ResultsStep
<1>5. ASSUME NEW k \in Kind, LoopStep(k) PROVE [Next]_vars
  <2>1. CASE TopIdle(k) \/ TopAssign(k) \/ PassEnds(k) \/ Send(k) \/ IgnoreResponse(k)
    BY <2>1 DEF TopIdle, TopAssign, PassEnds, Send, IgnoreResponse
  <2>2. CASE Reserved(k)
    BY <2>2 DEF Reserved, Next, QueueStep
  <2>3. CASE SendFails(k)
    <3>1. asked[k] \in Peer /\ Unreserve(k, asked[k])
      BY <2>3 DEF SendFails, FetchTyped
    <3> QED BY <1>1, <3>1
  <2>4. CASE DeliverResponse(k)
    <3>1. asked[k] \in Peer
      BY <2>4 DEF DeliverResponse, FetchTyped
    <3> QED BY <2>4, <3>1 DEF DeliverResponse, Next
  <2>5. CASE \E p \in Peer : Ask(k, p)
    BY <2>5 DEF Ask, Next
  <2> QED BY <1>5, <2>1, <2>2, <2>3, <2>4, <2>5 DEF LoopStep
<1>6. ASSUME NEW k \in Kind, PeerEvent(k) PROVE [Next]_vars
  <2>1. CASE PeerJoins(k)
    BY <2>1 DEF PeerJoins
  <2>2. CASE PeerLeaves(k)
    <3> DEFINE p == Head(peering[k]).peer
    <3>1. p \in Peer
      BY <2>2, FirstEvent DEF PeerLeaves
    <3>2. Unreserve(k, p) \/ UNCHANGED vars
      BY <2>2 DEF PeerLeaves
    <3> QED BY <1>1, <3>1, <3>2
  <2> QED BY <1>6, <2>1, <2>2 DEF PeerEvent
<1>7. ASSUME NEW k \in Kind,
             Woken(k) \/ CancelFetch(k) \/ \E p \in Peer : Timeout(k, p) \/ Response(k, p)
      PROVE  [Next]_vars
  BY <1>1, <1>7 DEF Woken, CancelFetch, Timeout, Response
<1>8. ASSUME NEW p \in Peer, RegisterPeer(p) \/ UnregisterPeer(p) \/ RevokePeer(p) PROVE [Next]_vars
  BY <1>8 DEF RegisterPeer, UnregisterPeer, RevokePeer, Next
<1> QED BY <1>2, <1>3, <1>4, <1>5, <1>6, <1>7, <1>8 DEF FetchNext

\* A peering event keeps the queue of them typed.
LEMMA Appended ==
  ASSUME NEW q \in Seq(Event), NEW e \in Event
  PROVE  Append(q, e) \in Seq(Event)
OBVIOUS

\* A change of one request's standing keeps its type.
LEMMA StandingSet ==
  ASSUME FetchTyped, NEW k \in Kind, NEW p \in Peer, NEW v \in Standing
  PROVE  [request EXCEPT ![k][p] = v] \in [Kind -> [Peer -> Standing]]
<1>1. request \in [Kind -> [Peer -> Standing]]
  BY DEF FetchTyped
<1>2. [request[k] EXCEPT ![p] = v] \in [Peer -> Standing]
  BY <1>1
<1> QED BY <1>1, <1>2

\* Types.
LEMMA FetchTypedKept ==
  ASSUME IInv, FInv, [FetchNext]_allVars
  PROVE  FetchTyped'
<1>0. FetchTyped
  BY DEF FInv
<1> USE <1>0
<1>1. CASE UNCHANGED allVars
  BY <1>1 DEF allVars, fetchVars, FetchTyped
<1>2. CASE HeaderStep
  BY <1>2 DEF HeaderStep, ScheduleHeader, NotifyFetchers, EndOfHeaders, CancelHeaders, NotifyEnd, WakeBoth, FetchTyped
<1>3. CASE CallStep \/ ResultsWait \/ TakeResults \/ CloseQueue \/ Cancel
  BY <1>3 DEF CallStep, ResultsWait, TakeResults, CloseQueue, Cancel, WakeBoth, fetchVars, FetchTyped
<1>4. ASSUME NEW k \in Kind, LoopStep(k) PROVE FetchTyped'
  <2>1. CASE TopIdle(k) \/ TopAssign(k) \/ PassEnds(k) \/ IgnoreResponse(k) \/ SendFails(k) \/ DeliverResponse(k)
    BY <2>1 DEF TopIdle, TopAssign, PassEnds, IgnoreResponse, SendFails, DeliverResponse, Goto, FetchTyped, LoopState
  <2>2. CASE Reserved(k)
    BY <2>2 DEF Reserved, Goto, FetchTyped, LoopState
  <2>3. CASE Send(k)
    <3>1. request' \in [Kind -> [Peer -> Standing]]
      <4>1. asked[k] \in Peer
        BY <2>3 DEF Send, FetchTyped
      <4> QED BY <2>3, <4>1, StandingSet DEF Send, Standing
    <3> QED BY <2>3, <3>1 DEF Send, Goto, FetchTyped, LoopState
  <2>4. ASSUME NEW p \in Peer, Ask(k, p) PROVE FetchTyped'
    BY <2>4 DEF Ask, Goto, FetchTyped, LoopState
  <2> QED BY <1>4, <2>1, <2>2, <2>3, <2>4 DEF LoopStep
<1>5. ASSUME NEW k \in Kind, PeerEvent(k) PROVE FetchTyped'
  <2>2. Tail(peering[k]) \in Seq(Event) /\ Head(peering[k]).peer \in Peer
    BY <1>5, FirstEvent DEF PeerEvent, PeerJoins, PeerLeaves
  <2>3. peering' \in [Kind -> Seq(Event)]
    BY <1>5, <2>2 DEF PeerEvent, PeerJoins, PeerLeaves, FetchTyped
  <2>4. request' \in [Kind -> [Peer -> Standing]]
    <3>1. CASE PeerJoins(k)
      BY <3>1 DEF PeerJoins, FetchTyped
    <3>2. CASE PeerLeaves(k)
      BY <2>2, <3>2, StandingSet DEF PeerLeaves, Standing
    <3> QED BY <1>5, <3>1, <3>2 DEF PeerEvent
  <2> QED BY <1>5, <2>3, <2>4 DEF PeerEvent, PeerJoins, PeerLeaves, Goto, FetchTyped, LoopState
<1>6. ASSUME NEW k \in Kind, Woken(k) \/ CancelFetch(k) PROVE FetchTyped'
  <2>1. CASE Woken(k)
    <3>1. finished' \in [Kind -> BOOLEAN]
      BY <2>1, Zenon DEF Woken, FetchTyped
    <3>2. wake' \in [Kind -> {"empty", "more", "end"}]
      BY <2>1 DEF Woken, FetchTyped
    <3> QED BY <2>1, <3>1, <3>2 DEF Woken, Goto, FetchTyped, LoopState
  <2>2. CASE CancelFetch(k)
    <3>1. request' \in [Kind -> [Peer -> Standing]]
      BY <2>2 DEF CancelFetch, FetchTyped, Standing
    <3> QED BY <2>2, <3>1 DEF CancelFetch, Goto, FetchTyped, LoopState
  <2> QED BY <1>6, <2>1, <2>2
<1>7. ASSUME NEW k \in Kind, NEW p \in Peer, Timeout(k, p) \/ Response(k, p) PROVE FetchTyped'
  <2>1. request' \in [Kind -> [Peer -> Standing]]
    BY <1>7, StandingSet DEF Timeout, Response, Standing
  <2> QED BY <1>7, <2>1 DEF Timeout, Response, Goto, FetchTyped, LoopState
<1>8. ASSUME NEW p \in Peer, RegisterPeer(p) \/ UnregisterPeer(p) \/ RevokePeer(p) PROVE FetchTyped'
  <2>1. ASSUME NEW j \in BOOLEAN, Announce(p, j)
        PROVE  peering' \in [Kind -> Seq(Event)]
    <3>1. [peer |-> p, join |-> j] \in Event
      BY DEF Event
    <3>2. \A k \in Kind : Append(peering[k], [peer |-> p, join |-> j]) \in Seq(Event)
      BY <3>1, Appended DEF FetchTyped
    <3> QED BY <2>1, <3>2 DEF Announce
  <2>2. peering' \in [Kind -> Seq(Event)]
    BY <1>8, <2>1 DEF RegisterPeer, UnregisterPeer, RevokePeer, FetchTyped
  <2> QED BY <1>8, <2>2 DEF RegisterPeer, UnregisterPeer, RevokePeer, FetchTyped
<1> QED BY <1>1, <1>2, <1>3, <1>4, <1>5, <1>6, <1>7, <1>8 DEF FetchNext

\* Nobody forgets that the headers have ended.
LEMMA EndToldKept ==
  ASSUME IInv, FInv, [FetchNext]_allVars
  PROVE  EndTold'
<1>0. EndTold /\ head \in Nat /\ MaxNumber \in Nat
  BY QueueAssumption DEF FInv, IInv, TypeOK
<1>a. wake \in [Kind -> {"empty", "more", "end"}] /\ finished \in [Kind -> BOOLEAN]
  BY DEF FInv, FetchTyped
<1>1. CASE ScheduleHeader
  <2>1. head # MaxNumber
    BY <1>0, <1>1 DEF ScheduleHeader, Schedule
  <2>2. headers' = "notify" /\ wake' = wake /\ finished' = finished
    BY <1>1 DEF ScheduleHeader
  <2> QED BY <1>0, <2>1, <2>2 DEF EndTold
<1>2. ASSUME head' = head, headers' = headers, finished' = finished,
             \A k \in Kind : wake'[k] = "end" => wake[k] = "end"
      PROVE  EndTold'
  BY <1>0, <1>2 DEF EndTold
<1>3. CASE UNCHANGED allVars
  BY <1>2, <1>3 DEF allVars, vars, taskVars, fetchVars
<1>4. CASE NotifyFetchers \/ EndOfHeaders \/ CancelHeaders
  <2>1. head' = head /\ finished' = finished /\ \A k \in Kind : wake'[k] = "end" => wake[k] = "end"
    BY <1>4 DEF NotifyFetchers, EndOfHeaders, CancelHeaders, WakeBoth, vars, taskVars
  <2>2. headers' \in {"endBodies", "endReceipts"} => head = MaxNumber
    BY <1>4 DEF NotifyFetchers, EndOfHeaders, CancelHeaders
  <2> QED BY <1>0, <2>1, <2>2 DEF EndTold
<1>5. ASSUME NEW k \in Kind, NotifyEnd(k) PROVE EndTold'
  <2>1. head' = head /\ finished' = finished /\ headers \in {"endBodies", "endReceipts"}
    BY <1>5 DEF NotifyEnd, vars, taskVars
  <2> QED BY <1>0, <2>1 DEF EndTold
<1>6. CASE CallStep \/ ResultsWait \/ TakeResults \/ CloseQueue \/ Cancel
  <2>1. head' = head /\ headers' = headers /\ finished' = finished
    BY <1>6 DEF CallStep, ResultsWait, TakeResults, CloseQueue, Cancel, DeliverReturn, ReserveHeader, Reconstruct,
         ResultsCall, ResultsLock, ResultsWoken, GetCompleted, Close, vars, taskVars, fetchVars
  <2>2. \A k \in Kind : wake'[k] = "end" => wake[k] = "end"
    BY <1>6 DEF CallStep, ResultsWait, TakeResults, CloseQueue, Cancel, WakeBoth, fetchVars
  <2> QED BY <1>2, <2>1, <2>2
<1>7. ASSUME NEW k \in Kind, LoopStep(k) PROVE EndTold'
  <2>1. headers' = headers /\ finished' = finished /\ wake' = wake
    BY <1>7 DEF LoopStep, TopIdle, TopAssign, Reserved, PassEnds, Send, SendFails, DeliverResponse, IgnoreResponse, Ask
  <2>2. head' = head
    BY <1>7 DEF LoopStep, TopIdle, TopAssign, Reserved, PassEnds, Send, SendFails, DeliverResponse, IgnoreResponse, Ask,
         ReserveReturn, Unreserve, Expire, Deliver, Reserve, vars, taskVars
  <2> QED BY <1>2, <2>1, <2>2
<1>8. ASSUME NEW k \in Kind, PeerEvent(k) \/ CancelFetch(k) \/ \E p \in Peer : Timeout(k, p) \/ Response(k, p)
      PROVE  EndTold'
  <2>1. headers' = headers /\ finished' = finished /\ wake' = wake
    BY <1>8 DEF PeerEvent, PeerJoins, PeerLeaves, CancelFetch, Timeout, Response
  <2>2. head' = head
    BY <1>8 DEF PeerEvent, PeerJoins, PeerLeaves, CancelFetch, Timeout, Response, Unreserve, Expire, vars, taskVars
  <2> QED BY <1>2, <2>1, <2>2
<1>9. ASSUME NEW k \in Kind, Woken(k) PROVE EndTold'
  <2>1. /\ head' = head /\ headers' = headers
        /\ wake' = [wake EXCEPT ![k] = "empty"]
        /\ \A j \in Kind : finished'[j] => finished[j] \/ wake[j] = "end"
    BY <1>9, <1>a, Zenon DEF Woken, vars, taskVars
  <2>2. \A j \in Kind : wake'[j] = "end" => wake[j] = "end"
    BY <1>a, <2>1
  <2> QED BY <1>0, <2>1, <2>2 DEF EndTold
<1>10. ASSUME NEW p \in Peer, RegisterPeer(p) \/ UnregisterPeer(p) \/ RevokePeer(p) PROVE EndTold'
  BY <1>2, <1>10 DEF RegisterPeer, UnregisterPeer, RevokePeer, Revoke, vars, taskVars
<1> QED BY <1>1, <1>3, <1>4, <1>5, <1>6, <1>7, <1>8, <1>9, <1>10 DEF FetchNext, HeaderStep

\* A call in the queue is made by the loop that waits for it.
LEMMA CallAskedKept ==
  ASSUME IInv, FInv, [FetchNext]_allVars
  PROVE  CallAsked'
<1>0. CallAsked /\ loop \in [Kind -> LoopState] /\ DOMAIN asked = Kind
  BY DEF FInv, FetchTyped
<1>a. call.op = "reserve" => call.kind \in Kind
  BY ReserveCall DEF IInv
<1>1. ASSUME call'.op = "reserve" => call' = call,
             \A j \in Kind : loop[j] = "reserve" => loop'[j] = "reserve" /\ asked'[j] = asked[j]
      PROVE  CallAsked'
  BY <1>0, <1>1, <1>a DEF CallAsked
<1>2. CASE UNCHANGED allVars
  BY <1>1, <1>2 DEF allVars, vars, fetchVars
<1>3. CASE HeaderStep \/ ResultsWait \/ TakeResults \/ CloseQueue \/ Cancel
  BY <1>1, <1>3 DEF HeaderStep, ScheduleHeader, NotifyFetchers, EndOfHeaders, CancelHeaders, NotifyEnd, Schedule,
       ResultsWait, TakeResults, CloseQueue, Cancel, ResultsCall, ResultsLock, ResultsWoken, GetCompleted, Close,
       vars, fetchVars
<1>4. CASE CallStep
  <2>0. loop' = loop /\ asked' = asked
    BY <1>4 DEF CallStep, fetchVars
  <2>1. CASE DeliverReturn
    BY <1>1, <2>0, <2>1 DEF DeliverReturn, Idle
  <2>2. ASSUME NEW h \in Number, ReserveHeader(h) PROVE CallAsked'
    <3>1. call.op = "reserve" /\ call'.op = call.op /\ call'.kind = call.kind /\ call'.peer = call.peer
      BY <2>2, ReserveCall DEF ReserveHeader, Reserving, IInv
    <3> QED BY <1>0, <2>0, <3>1 DEF CallAsked
  <2>3. ASSUME NEW h \in Number, Reconstruct(h) PROVE CallAsked'
    <3>1. call'.op = "deliver"
      BY <2>3, DeliverCall DEF Reconstruct, IInv
    <3> QED BY <3>1 DEF CallAsked
  <2> QED BY <1>4, <2>1, <2>2, <2>3 DEF CallStep
<1>5. ASSUME NEW k \in Kind, LoopStep(k) PROVE CallAsked'
  <2>1. CASE TopIdle(k) \/ TopAssign(k) \/ PassEnds(k) \/ Send(k) \/ IgnoreResponse(k) \/ SendFails(k)
    BY <1>0, <1>1, <2>1 DEF TopIdle, TopAssign, PassEnds, Send, IgnoreResponse, SendFails, Unreserve, Expire, Goto, vars
  <2>2. CASE Reserved(k)
    BY <2>2 DEF Reserved, ReserveReturn, Idle, CallAsked
  <2>3. CASE DeliverResponse(k)
    <3>1. call'.op # "reserve"
      BY <2>3 DEF DeliverResponse, Deliver, Idle, vars
    <3> QED BY <3>1 DEF CallAsked
  <2>4. ASSUME NEW p \in Peer, Ask(k, p) PROVE CallAsked'
    <3>1. call'.kind = k /\ call'.peer = p
      BY <2>4 DEF Ask, Reserve
    <3>2. loop'[k] = "reserve" /\ asked'[k] = p
      BY <1>0, <2>4 DEF Ask, Goto
    <3> QED BY <3>1, <3>2 DEF CallAsked
  <2> QED BY <1>5, <2>1, <2>2, <2>3, <2>4 DEF LoopStep
<1>6. ASSUME NEW k \in Kind, PeerEvent(k) \/ Woken(k) \/ CancelFetch(k)
      PROVE  CallAsked'
  BY <1>0, <1>1, <1>6 DEF PeerEvent, PeerJoins, PeerLeaves, Woken, CancelFetch, Unreserve, Expire, Goto, vars
<1>7. ASSUME NEW k \in Kind, NEW p \in Peer, Timeout(k, p) \/ Response(k, p) PROVE CallAsked'
  BY <1>0, <1>1, <1>7 DEF Timeout, Response, Unreserve, Expire, Goto, vars
<1>8. ASSUME NEW p \in Peer, RegisterPeer(p) \/ UnregisterPeer(p) \/ RevokePeer(p) PROVE CallAsked'
  BY <1>1, <1>8 DEF RegisterPeer, UnregisterPeer, RevokePeer, Revoke, vars
<1> QED BY <1>2, <1>3, <1>4, <1>5, <1>6, <1>7, <1>8 DEF FetchNext

\* expire leaves no task with the peer and touches no other request.
LEMMA Unreserved ==
  ASSUME IInv, NEW k \in Kind, NEW p \in Peer, Unreserve(k, p)
  PROVE  /\ pendPool'[k][p] = {}
         /\ \A j \in Kind, q \in Peer : (j # k \/ q # p) => pendPool'[j][q] = pendPool[j][q]
<1>1. pendPool \in [Kind -> [Peer -> SUBSET Number]]
  BY DEF IInv, TypeOK
<1>2. CASE Expire(k, p)
  BY <1>1, <1>2 DEF Expire
<1>3. CASE call = Idle /\ pendPool[k][p] = {} /\ UNCHANGED vars
  BY <1>3 DEF vars, taskVars
<1> QED BY <1>2, <1>3 DEF Unreserve

\* Parts in flight have a request that will be answered, revoked or expired.
LEMMA OwnedKept ==
  ASSUME IInv, FInv, [FetchNext]_allVars
  PROVE  Owned' /\ IgnoredRevoked'
<1> DEFINE Held(k, p) ==
      pendPool[k][p] # {} =>
        \/ request[k][p] = "pending" \/ conn[p] = "leaving" \/ loop[k] = "done"
        \/ loop[k] \in {"send", "deliver"} /\ asked[k] = p
     Gone(k) == loop[k] = "deliver" /\ conn[asked[k]] = "out" => pendPool[k][asked[k]] = {}
<1>0. /\ \A k \in Kind, p \in Peer : Held(k, p)
      /\ \A k \in Kind : Gone(k)
      /\ conn \in [Peer -> {"out", "up", "leaving"}] /\ loop \in [Kind -> LoopState] /\ DOMAIN asked = Kind
      /\ request \in [Kind -> [Peer -> Standing]]
      /\ \A k \in Kind : loop[k] \in {"reserve", "send", "deliver"} => asked[k] \in Peer
  BY DEF FInv, FetchTyped, Owned, IgnoredRevoked
<1>a. pendPool \in [Kind -> [Peer -> SUBSET Number]]
  BY DEF IInv, TypeOK
<1> SUFFICES (\A k \in Kind, p \in Peer : Held(k, p)') /\ (\A k \in Kind : Gone(k)')
  BY DEF Owned, IgnoredRevoked
\* Fetchers other than the one that moves.
<1>1. ASSUME NEW k \in Kind, conn' = conn,
             \A j \in Kind \ {k} : /\ loop'[j] = loop[j] /\ asked'[j] = asked[j] /\ request'[j] = request[j]
                                   /\ \A p \in Peer : pendPool'[j][p] = pendPool[j][p]
      PROVE  \A j \in Kind \ {k} : Gone(j)' /\ \A p \in Peer : Held(j, p)'
  <2> SUFFICES ASSUME NEW j \in Kind \ {k} PROVE Gone(j)' /\ \A p \in Peer : Held(j, p)'
    OBVIOUS
  <2>1. \A p \in Peer : Held(j, p)'
    BY <1>0, <1>1
  <2>2. Gone(j)'
    BY <1>0, <1>1
  <2> QED BY <2>1, <2>2
<1>2. ASSUME pendPool' = pendPool, conn' = conn, loop' = loop, asked' = asked, request' = request
      PROVE  (\A k \in Kind, p \in Peer : Held(k, p)') /\ (\A k \in Kind : Gone(k)')
  BY <1>0, <1>2
<1>3. CASE UNCHANGED allVars
  BY <1>2, <1>3 DEF allVars, vars, taskVars, fetchVars
<1>4. CASE HeaderStep
  BY <1>2, <1>4 DEF HeaderStep, ScheduleHeader, NotifyFetchers, EndOfHeaders, CancelHeaders, NotifyEnd, Schedule,
       vars, taskVars
<1>5. CASE CallStep \/ ResultsWait \/ TakeResults \/ CloseQueue \/ Cancel
  <2>1. pendPool' = pendPool
    BY <1>5 DEF CallStep, ResultsWait, TakeResults, CloseQueue, Cancel, DeliverReturn, ReserveHeader, Reconstruct,
         ResultsCall, ResultsLock, ResultsWoken, GetCompleted, Close, vars, taskVars
  <2>2. conn' = conn /\ loop' = loop /\ asked' = asked /\ request' = request
    BY <1>5 DEF CallStep, ResultsWait, TakeResults, CloseQueue, Cancel, fetchVars
  <2> QED BY <1>2, <2>1, <2>2
<1>6. ASSUME NEW k \in Kind, TopIdle(k) \/ TopAssign(k) \/ PassEnds(k) \/ PeerJoins(k) \/ Woken(k)
      PROVE  (\A j \in Kind, p \in Peer : Held(j, p)') /\ (\A j \in Kind : Gone(j)')
  <2>1. /\ pendPool' = pendPool /\ conn' = conn /\ asked' = asked /\ request' = request
        /\ loop[k] \in {"top", "ask", "select"}
        /\ \E l \in {"done", "top", "ask", "select"} : loop' = [loop EXCEPT ![k] = l]
    BY <1>6 DEF TopIdle, TopAssign, PassEnds, PeerJoins, Woken, Goto, vars, taskVars
  <2>2. loop'[k] \in {"done", "top", "ask", "select"} /\ \A j \in Kind \ {k} : loop'[j] = loop[j]
    BY <1>0, <2>1
  <2>3. Gone(k)' /\ \A p \in Peer : Held(k, p)'
    BY <1>0, <2>1, <2>2
  <2> QED BY <1>1, <2>1, <2>2, <2>3
<1>7. ASSUME NEW k \in Kind, CancelFetch(k)
      PROVE  (\A j \in Kind, p \in Peer : Held(j, p)') /\ (\A j \in Kind : Gone(j)')
  <2>1. /\ pendPool' = pendPool /\ conn' = conn /\ asked' = asked
        /\ loop'[k] = "done"
        /\ \A j \in Kind \ {k} : loop'[j] = loop[j] /\ request'[j] = request[j]
    BY <1>0, <1>7 DEF CancelFetch, Goto, vars, taskVars
  <2> QED BY <1>1, <2>1
<1>8. ASSUME NEW k \in Kind, Reserved(k)
      PROVE  (\A j \in Kind, p \in Peer : Held(j, p)') /\ (\A j \in Kind : Gone(j)')
  <2>1. call.op = "reserve" /\ call.kind = k /\ loop[k] = "reserve" /\ asked[k] = call.peer /\ call.peer \in Peer
    BY <1>8, ReserveCall DEF Reserved, ReserveReturn, FInv, CallAsked, IInv
  <2>2. /\ pendPool'[k][asked[k]] = call.send
        /\ \A p \in Peer \ {asked[k]} : pendPool'[k][p] = pendPool[k][p]
        /\ \A j \in Kind \ {k} : pendPool'[j] = pendPool[j]
    BY <1>a, <1>8, <2>1 DEF Reserved, ReserveReturn
  <2>3. /\ conn' = conn /\ asked' = asked /\ request' = request
        /\ loop'[k] = IF call.send # {} THEN "send" ELSE "ask"
        /\ \A j \in Kind \ {k} : loop'[j] = loop[j]
    BY <1>0, <1>8 DEF Reserved, Goto
  <2>4. Gone(k)' /\ \A p \in Peer : Held(k, p)'
    BY <1>0, <2>1, <2>2, <2>3
  <2> QED BY <1>1, <2>2, <2>3, <2>4
<1>9. ASSUME NEW k \in Kind, Send(k)
      PROVE  (\A j \in Kind, p \in Peer : Held(j, p)') /\ (\A j \in Kind : Gone(j)')
  <2>1. loop[k] = "send" /\ asked[k] \in Peer /\ pendPool' = pendPool /\ conn' = conn /\ asked' = asked
    BY <1>0, <1>9 DEF Send, vars, taskVars
  <2>2. /\ loop'[k] = "ask" /\ request'[k][asked[k]] = "pending"
        /\ \A p \in Peer \ {asked[k]} : request'[k][p] = request[k][p]
        /\ \A j \in Kind \ {k} : loop'[j] = loop[j] /\ request'[j] = request[j]
    BY <1>0, <1>9, <2>1 DEF Send, Goto
  <2>3. Gone(k)' /\ \A p \in Peer : Held(k, p)'
    BY <1>0, <2>1, <2>2
  <2> QED BY <1>1, <2>1, <2>2, <2>3
<1>10. ASSUME NEW k \in Kind, SendFails(k)
       PROVE  (\A j \in Kind, p \in Peer : Held(j, p)') /\ (\A j \in Kind : Gone(j)')
  <2>1. loop[k] = "send" /\ asked[k] \in Peer /\ conn' = conn /\ asked' = asked /\ request' = request
    BY <1>0, <1>10 DEF SendFails
  <2>2. /\ pendPool'[k][asked[k]] = {}
        /\ \A j \in Kind, q \in Peer : (j # k \/ q # asked[k]) => pendPool'[j][q] = pendPool[j][q]
    BY <1>10, <2>1, Unreserved DEF SendFails
  <2>3. loop'[k] = "ask" /\ \A j \in Kind \ {k} : loop'[j] = loop[j]
    BY <1>0, <1>10 DEF SendFails, Goto
  <2>4. Gone(k)' /\ \A p \in Peer : Held(k, p)'
    BY <1>0, <2>1, <2>2, <2>3
  <2> QED BY <1>1, <2>1, <2>2, <2>3, <2>4
<1>11. ASSUME NEW k \in Kind, PeerLeaves(k)
       PROVE  (\A j \in Kind, p \in Peer : Held(j, p)') /\ (\A j \in Kind : Gone(j)')
  <2> DEFINE p == Head(peering[k]).peer
  <2>1. p \in Peer
    BY <1>11, FirstEvent DEF PeerLeaves, FInv
  <2>2. /\ loop[k] = "select" /\ conn' = conn /\ asked' = asked
        /\ request' = [request EXCEPT ![k][p] = "none"]
        /\ IF request[k][p] = "pending" THEN Unreserve(k, p) ELSE UNCHANGED vars
    BY <1>11 DEF PeerLeaves
  <2> HIDE DEF p
  <2>3. loop'[k] = "top" /\ \A j \in Kind \ {k} : loop'[j] = loop[j]
    BY <1>0, <1>11 DEF PeerLeaves, Goto
  <2>4. /\ \A q \in Peer \ {p} : request'[k][q] = request[k][q]
        /\ \A j \in Kind \ {k} : request'[j] = request[j]
    BY <1>0, <2>1, <2>2
  <2>5. /\ \A j \in Kind, q \in Peer : (j # k \/ q # p) => pendPool'[j][q] = pendPool[j][q]
        /\ pendPool'[k][p] = {} \/ (pendPool'[k][p] = pendPool[k][p] /\ request[k][p] # "pending")
    <3>1. CASE request[k][p] = "pending"
      BY <2>1, <2>2, <3>1, Unreserved
    <3>2. CASE request[k][p] # "pending"
      BY <2>2, <3>2 DEF vars, taskVars
    <3> QED BY <3>1, <3>2
  <2>6. Gone(k)' /\ \A q \in Peer : Held(k, q)'
    BY <1>0, <2>1, <2>2, <2>3, <2>4, <2>5
  <2> QED BY <1>1, <2>2, <2>3, <2>4, <2>5, <2>6
<1>12. ASSUME NEW k \in Kind, NEW p \in Peer, Timeout(k, p)
       PROVE  (\A j \in Kind, q \in Peer : Held(j, q)') /\ (\A j \in Kind : Gone(j)')
  <2>1. loop[k] = "select" /\ conn' = conn /\ asked' = asked
    BY <1>12 DEF Timeout
  <2>2. /\ pendPool'[k][p] = {}
        /\ \A j \in Kind, q \in Peer : (j # k \/ q # p) => pendPool'[j][q] = pendPool[j][q]
    BY <1>12, Unreserved DEF Timeout
  <2>3. /\ loop'[k] = "top" /\ \A q \in Peer \ {p} : request'[k][q] = request[k][q]
        /\ \A j \in Kind \ {k} : loop'[j] = loop[j] /\ request'[j] = request[j]
    BY <1>0, <1>12 DEF Timeout, Goto
  <2>4. Gone(k)' /\ \A q \in Peer : Held(k, q)'
    BY <1>0, <2>1, <2>2, <2>3
  <2> QED BY <1>1, <2>1, <2>2, <2>3, <2>4
<1>13. ASSUME NEW k \in Kind, NEW p \in Peer, Response(k, p)
       PROVE  (\A j \in Kind, q \in Peer : Held(j, q)') /\ (\A j \in Kind : Gone(j)')
  <2>1. loop[k] = "select" /\ conn[p] = "up" /\ conn' = conn /\ pendPool' = pendPool
    BY <1>13 DEF Response, vars, taskVars
  <2>2. /\ loop'[k] = "deliver" /\ asked'[k] = p /\ \A q \in Peer \ {p} : request'[k][q] = request[k][q]
        /\ \A j \in Kind \ {k} : loop'[j] = loop[j] /\ asked'[j] = asked[j] /\ request'[j] = request[j]
    BY <1>0, <1>13 DEF Response, Goto
  <2>3. Gone(k)' /\ \A q \in Peer : Held(k, q)'
    BY <1>0, <2>1, <2>2
  <2> QED BY <1>1, <2>1, <2>2, <2>3
<1>14. ASSUME NEW k \in Kind, DeliverResponse(k)
       PROVE  (\A j \in Kind, q \in Peer : Held(j, q)') /\ (\A j \in Kind : Gone(j)')
  <2>1. loop[k] = "deliver" /\ asked[k] \in Peer /\ conn' = conn /\ asked' = asked /\ request' = request
    BY <1>0, <1>14 DEF DeliverResponse
  <2>2. /\ pendPool'[k][asked[k]] = {}
        /\ \A j \in Kind, q \in Peer : (j # k \/ q # asked[k]) => pendPool'[j][q] = pendPool[j][q]
    <3>1. ASSUME NEW good, NEW empty, Deliver(k, asked[k], good, empty)
          PROVE  /\ pendPool'[k][asked[k]] = {}
                 /\ \A j \in Kind, q \in Peer : (j # k \/ q # asked[k]) => pendPool'[j][q] = pendPool[j][q]
      BY <1>a, <2>1, <3>1 DEF Deliver
    <3>2. CASE pendPool[k][asked[k]] = {} /\ UNCHANGED vars
      BY <3>2 DEF vars, taskVars
    <3> QED BY <1>14, <3>1, <3>2 DEF DeliverResponse
  <2>3. loop'[k] = "top" /\ \A j \in Kind \ {k} : loop'[j] = loop[j]
    BY <1>0, <1>14 DEF DeliverResponse, Goto
  <2>4. Gone(k)' /\ \A q \in Peer : Held(k, q)'
    BY <1>0, <2>1, <2>2, <2>3
  <2> QED BY <1>1, <2>1, <2>2, <2>3, <2>4
<1>15. ASSUME NEW k \in Kind, IgnoreResponse(k)
       PROVE  (\A j \in Kind, q \in Peer : Held(j, q)') /\ (\A j \in Kind : Gone(j)')
  <2>1. /\ loop[k] = "deliver" /\ asked[k] \in Peer /\ conn[asked[k]] \in {"out", "leaving"}
        /\ conn' = conn /\ asked' = asked /\ request' = request /\ pendPool' = pendPool
    BY <1>0, <1>15 DEF IgnoreResponse, vars, taskVars
  <2>2. loop'[k] = "top" /\ \A j \in Kind \ {k} : loop'[j] = loop[j]
    BY <1>0, <1>15 DEF IgnoreResponse, Goto
  <2>3. Gone(k)' /\ \A q \in Peer : Held(k, q)'
    BY <1>0, <2>1, <2>2
  <2> QED BY <1>1, <2>1, <2>2, <2>3
<1>16. ASSUME NEW k \in Kind, NEW p \in Peer, Ask(k, p)
       PROVE  (\A j \in Kind, q \in Peer : Held(j, q)') /\ (\A j \in Kind : Gone(j)')
  <2>1. loop[k] = "ask" /\ conn' = conn /\ request' = request /\ pendPool' = pendPool
    BY <1>16 DEF Ask, Reserve, taskVars
  <2>2. /\ loop'[k] = "reserve"
        /\ \A j \in Kind \ {k} : loop'[j] = loop[j] /\ asked'[j] = asked[j]
    BY <1>0, <1>16 DEF Ask, Goto
  <2>3. Gone(k)' /\ \A q \in Peer : Held(k, q)'
    BY <1>0, <2>1, <2>2
  <2> QED BY <1>1, <2>1, <2>2, <2>3
<1>17. ASSUME NEW p \in Peer, RegisterPeer(p) \/ UnregisterPeer(p)
       PROVE  (\A j \in Kind, q \in Peer : Held(j, q)') /\ (\A j \in Kind : Gone(j)')
  <2>1. /\ loop' = loop /\ asked' = asked /\ request' = request /\ pendPool' = pendPool
        /\ conn[p] # "leaving" /\ conn'[p] # "out" /\ \A q \in Peer \ {p} : conn'[q] = conn[q]
    BY <1>0, <1>17 DEF RegisterPeer, UnregisterPeer, vars, taskVars
  <2> QED BY <1>0, <2>1
<1>18. ASSUME NEW p \in Peer, RevokePeer(p)
       PROVE  (\A j \in Kind, q \in Peer : Held(j, q)') /\ (\A j \in Kind : Gone(j)')
  <2>1. /\ loop' = loop /\ asked' = asked /\ request' = request
        /\ \A q \in Peer \ {p} : conn'[q] = conn[q]
    BY <1>0, <1>18 DEF RevokePeer
  <2>2. \A j \in Kind : pendPool'[j][p] = {} /\ \A q \in Peer \ {p} : pendPool'[j][q] = pendPool[j][q]
    BY <1>a, <1>18 DEF RevokePeer, Revoke
  <2> QED BY <1>0, <2>1, <2>2
<1> QED BY <1>3, <1>4, <1>5, <1>6, <1>7, <1>8, <1>9, <1>10, <1>11, <1>12, <1>13, <1>14, <1>15, <1>16, <1>17, <1>18
       DEF FetchNext, LoopStep, PeerEvent

-----------------------------------------------------------------------------
\* The invariant of the queue and that of the fetchers hold together.
THEOREM FetchInvariant == FetchSpec => [](IInv /\ FInv)
<1>1. IInv /\ FInv /\ [FetchNext]_allVars => (IInv /\ FInv)'
  <2> SUFFICES ASSUME IInv, FInv, [FetchNext]_allVars PROVE (IInv /\ FInv)'
    OBVIOUS
  <2>1. IInv'
    BY FetchStep, NextIInv DEF FInv
  <2>2. FInv'
    BY FetchTypedKept, EndToldKept, CallAskedKept, OwnedKept DEF FInv
  <2> QED BY <2>1, <2>2
<1> QED BY <1>1, InitFInv, PTL DEF FetchSpec

\* The fetchers, the header processor, peers that come and go and the end of the
\* cycle use the queue only in ways BlockQueue allows, so all that is proved of
\* the queue under arbitrary calls holds in a sync cycle.
THEOREM FetchUsesQueue == FetchSpec => Spec
<1>1. FetchInit => Init
  BY DEF FetchInit
<1>2. FInv /\ [FetchNext]_allVars => [Next]_vars
  BY FetchStep DEF FInv
<1> QED BY <1>1, <1>2, FetchInvariant, PTL DEF FetchSpec, Spec

\* In a sync cycle no block part is lost or fetched twice at a time.
THEOREM CyclePartsKept == FetchSpec => []TasksKept
BY FetchUsesQueue, PartsKept, PTL

\* A fetcher that was not cancelled ends only when all headers are scheduled and
\* each of its tasks is with a peer in the middle of UnregisterPeer, for any
\* number of peers, blocks and events (fetchers_concurrent.go).
THEOREM FetcherEndsWhenDone == FetchSpec => EndsWhenDone
<1>1. IInv /\ FInv /\ [FetchNext]_allVars =>
        [\A k \in Kind : loop[k] # "done" /\ loop'[k] = "done" /\ ~cancelled =>
           /\ head = MaxNumber
           /\ \A h \in taskPool[k] : \E p \in Peer : h \in pendPool[k][p] /\ conn[p] = "leaving"]_allVars
  <2> SUFFICES ASSUME IInv, FInv, [FetchNext]_allVars, NEW k \in Kind,
                      loop[k] # "done", loop'[k] = "done", ~cancelled
               PROVE  /\ head = MaxNumber
                      /\ \A h \in taskPool[k] : \E p \in Peer : h \in pendPool[k][p] /\ conn[p] = "leaving"
    BY DEF allVars
  <2>0. loop \in [Kind -> LoopState]
    BY DEF FInv, FetchTyped
  <2>1. TopIdle(k) /\ NothingPending(k) /\ finished[k]
    <3>1. CASE HeaderStep \/ CallStep \/ ResultsWait \/ TakeResults \/ CloseQueue \/ Cancel \/ UNCHANGED allVars
      BY <3>1 DEF HeaderStep, ScheduleHeader, NotifyFetchers, EndOfHeaders, CancelHeaders, NotifyEnd,
           CallStep, ResultsWait, TakeResults, CloseQueue, Cancel, allVars, fetchVars
    <3>2. CASE \E p \in Peer : RegisterPeer(p) \/ UnregisterPeer(p) \/ RevokePeer(p)
      BY <3>2 DEF RegisterPeer, UnregisterPeer, RevokePeer
    <3>3. ASSUME NEW j \in Kind,
                 \/ LoopStep(j) \/ PeerEvent(j) \/ Woken(j) \/ CancelFetch(j)
                 \/ \E p \in Peer : Timeout(j, p) \/ Response(j, p)
          PROVE  TopIdle(k) /\ NothingPending(k) /\ finished[k]
      <4>1. CASE TopIdle(j)
        BY <2>0, <4>1 DEF TopIdle, Goto
      <4>2. CASE CancelFetch(j)
        BY <4>2 DEF CancelFetch
      <4>3. ASSUME NEW l, l # "done", loop' = [loop EXCEPT ![j] = l] PROVE FALSE
        BY <2>0, <4>3
      <4>4. CASE \/ TopAssign(j) \/ Reserved(j) \/ PassEnds(j) \/ Send(j) \/ SendFails(j) \/ DeliverResponse(j)
                 \/ IgnoreResponse(j) \/ \E p \in Peer : Ask(j, p)
        BY <4>3, <4>4 DEF TopAssign, Reserved, PassEnds, Send, SendFails, DeliverResponse, IgnoreResponse, Ask, Goto
      <4>5. CASE PeerEvent(j) \/ Woken(j) \/ \E p \in Peer : Timeout(j, p) \/ Response(j, p)
        BY <4>3, <4>5 DEF PeerEvent, PeerJoins, PeerLeaves, Woken, Timeout, Response, Goto
      <4> QED BY <3>3, <4>1, <4>2, <4>4, <4>5 DEF LoopStep
    <3> QED BY <3>1, <3>2, <3>3 DEF FetchNext
  <2>2. head = MaxNumber
    BY <2>1 DEF FInv, EndTold
  <2>3. ASSUME NEW h \in taskPool[k]
        PROVE  \E p \in Peer : h \in pendPool[k][p] /\ conn[p] = "leaving"
    <3>1. call = Idle /\ taskQueue[k] = {} /\ InHand(k) = {} /\ h \in Number
      BY <2>1 DEF TopIdle, InHand, Idle, IInv, TypeOK
    <3>2. PICK p \in Peer : h \in pendPool[k][p]
      BY <3>1 DEF IInv, TasksKept, OnePlace
    <3>3. conn[p] = "leaving"
      BY <2>1, <3>2 DEF FInv, Owned, NothingPending, TopIdle
    <3> QED BY <3>2, <3>3
  <2> QED BY <2>2, <2>3
<1> QED BY <1>1, FetchInvariant, PTL DEF FetchSpec, EndsWhenDone
=============================================================================
