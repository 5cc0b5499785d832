------------------------- MODULE TxFetcherNodeProofs -------------------------
(***************************************************************************)
(* Proofs about TxFetcher and TxFetcherNode.  The invariants of the        *)
(* fetcher's loop hold for every set of peers and hashes and every value   *)
(* of the limits; with its callers the fetcher implements the fetcher      *)
(* under arbitrary calls, hence has all its invariants, and a peer that    *)
(* left is forgotten.                                                      *)
(***************************************************************************)
EXTENDS TxFetcherNode, FiniteSetTheorems, TLAPS

\* The maps of stages 2 and 3 are consistent, whether stored in the variables
\* or as a handler leaves them when it calls scheduleFetches.
MapsTyped(ann, anned, alt, fet, req) ==
  /\ ann \in [Peer -> [Hash -> Slot]]
  /\ anned \in [Hash -> SUBSET Peer]
  /\ alt \in [Hash -> SUBSET Peer]
  /\ fet \in [Hash -> Peer \cup {NoPeer}]
  /\ req \in [Peer -> Request \cup {NoRequest}]

MapsOK(ann, anned, alt, fet, req, timer) ==
  /\ \A h \in Hash : alt[h] # {} <=> fet[h] # NoPeer
  /\ \A h \in Hash : fet[h] # NoPeer => anned[h] = {}
  /\ \A h \in Hash, p \in Peer :
       /\ fet[h] = p <=> h \in req[p].hashes \ req[p].stolen
       /\ fet[h] = p => ann[p][h] # NoMeta /\ p \in alt[h]
       /\ ann[p][h] # NoMeta => p \in anned[h] \cup alt[h]
  /\ timer \in BOOLEAN
  /\ (\E p \in Peer : req[p].open) => timer

\* The maps of stage 1 are consistent and share no hash with stages 2 and 3.
WaitOK ==
  /\ \A h \in Hash, p \in Peer : p \in waitlist[h] <=> waitslots[p][h] # NoMeta
  /\ \A h \in Hash : waitlist[h] # {} => waitTimer /\ announced[h] = {} /\ fetching[h] = NoPeer

\* What a handler ends with when it leaves the queue anned and the fetches fet
\* to scheduleFetches: consistent maps, no panic, no new hash.
Settled(anned, fet) ==
  /\ MapsTyped(announces', announced', alternates', fetching', requests')
  /\ MapsOK(announces', announced', alternates', fetching', requests', timeoutTimer')
  /\ ~panicked' /\ panicked' \in BOOLEAN
  /\ \A h \in Hash : (anned[h] = {} /\ fet[h] = NoPeer) => (announced'[h] = {} /\ fetching'[h] = NoPeer)

\* The inductive invariant.
IInv ==
  /\ TypeOK
  /\ MapsOK(announces, announced, alternates, fetching, requests, timeoutTimer)
  /\ WaitOK
  /\ ~panicked

-----------------------------------------------------------------------------
\* scheduleFetches only assigns hashes that the peer announces and nobody
\* fetches to peers without a request, and never one hash to two peers.
LEMMA AllocationFacts ==
  ASSUME NEW actives, NEW ann, NEW fet, NEW req, actives \subseteq Peer,
         NEW alloc \in Allocations(actives, ann, fet, req)
  PROVE  /\ alloc \in [Peer -> SUBSET Hash]
         /\ \A p \in Peer : alloc[p] # {} => ~req[p].open
         /\ \A p \in Peer : \A h \in alloc[p] : ann[p][h] # NoMeta /\ fet[h] = NoPeer
         /\ \A p, q \in Peer : p # q => alloc[p] \cap alloc[q] = {}
<1> DEFINE idle == {p \in actives : ~req[p].open /\ Held(ann[p]) # {}}
<1> DEFINE taken(rank, p) == UNION {alloc[q] : q \in {r \in idle : rank[r] < rank[p]}}
<1>1. PICK rank \in [idle -> 1..Cardinality(idle)] :
        /\ \A p, q \in idle : rank[p] = rank[q] => p = q
        /\ \A p \in idle : alloc[p] \in Batches(ann[p], Candidates(ann[p], fet) \ taken(rank, p))
  BY DEF Allocations
<1>2. alloc \in [Peer -> SUBSET Hash] /\ \A p \in Peer \ idle : alloc[p] = {}
  BY DEF Allocations, Candidates
<1>3. \A p \in idle : alloc[p] \subseteq Candidates(ann[p], fet) \ taken(rank, p)
  BY <1>1 DEF Batches
<1>4. ASSUME NEW p \in idle, NEW q \in idle, p # q
      PROVE  alloc[p] \cap alloc[q] = {}
  <2>1. IsFiniteSet(idle)
    BY FS_Subset, PeerAssumption
  <2>2. Cardinality(idle) \in Nat
    BY <2>1, FS_CardinalityType
  <2>3. rank[p] # rank[q]
    BY <1>1, <1>4
  <2> HIDE DEF idle
  <2>6. rank[p] \in 1..Cardinality(idle) /\ rank[q] \in 1..Cardinality(idle)
    BY <1>1
  <2>4. CASE rank[p] < rank[q]
    BY <1>3, <2>4 DEF idle
  <2>5. CASE rank[q] < rank[p]
    BY <1>3, <2>5 DEF idle
  <2> QED BY <2>2, <2>3, <2>4, <2>5, <2>6
<1>5. \A p, q \in Peer : p # q => alloc[p] \cap alloc[q] = {}
  BY <1>2, <1>4
<1>6. \A p \in Peer : \A h \in alloc[p] : ann[p][h] # NoMeta /\ fet[h] = NoPeer
  BY <1>2, <1>3 DEF Candidates
<1> QED BY <1>2, <1>5, <1>6

\* scheduleFetches keeps consistent maps consistent, reaches no panic, and
\* brings no hash into stages 2 and 3.
LEMMA ScheduleFacts ==
  ASSUME NEW actives, NEW ann, NEW anned, NEW alt, NEW fet, NEW req, NEW timer, NEW panic,
         actives \subseteq Peer, panic = FALSE,
         MapsTyped(ann, anned, alt, fet, req), MapsOK(ann, anned, alt, fet, req, timer),
         ScheduleFetches(actives, ann, anned, alt, fet, req, timer, panic)
  PROVE  Settled(anned, fet)
<1>1. PICK alloc \in Allocations(actives, ann, fet, req) :
        /\ announces' = ann
        /\ fetching' = [h \in Hash |-> IF h \in Requested(alloc)
                                         THEN CHOOSE p \in Peer : h \in alloc[p] ELSE fet[h]]
        /\ alternates' = [h \in Hash |-> IF h \in Requested(alloc) THEN anned[h] ELSE alt[h]]
        /\ announced' = [h \in Hash |-> IF h \in Requested(alloc) THEN {} ELSE anned[h]]
        /\ requests' = [p \in Peer |-> IF alloc[p] # {} THEN NewRequest(alloc[p]) ELSE req[p]]
        /\ timeoutTimer' = (timer \/ (Idle(req) /\ Requested(alloc) # {}))
        /\ panicked' = (panic \/ \E h \in Requested(alloc) : alt[h] # {})
  BY DEF ScheduleFetches
<1>2. /\ alloc \in [Peer -> SUBSET Hash]
      /\ \A p \in Peer : alloc[p] # {} => ~req[p].open
      /\ \A p \in Peer : \A h \in alloc[p] : ann[p][h] # NoMeta /\ fet[h] = NoPeer
      /\ \A p, q \in Peer : p # q => alloc[p] \cap alloc[q] = {}
  BY AllocationFacts
<1>3. \A h : h \in Requested(alloc) <=> \E p \in Peer : h \in alloc[p]
  BY DEF Requested
<1>4. ASSUME NEW p \in Peer, NEW h \in alloc[p]
      PROVE  h \in Hash /\ h \in Requested(alloc) /\ fetching'[h] = p
  <2>1. (CHOOSE q \in Peer : h \in alloc[q]) = p
    BY <1>2
  <2> QED BY <1>1, <1>2, <1>3, <2>1
<1>5. ASSUME NEW h \in Hash, h \notin Requested(alloc)
      PROVE  fetching'[h] = fet[h] /\ alternates'[h] = alt[h] /\ announced'[h] = anned[h]
  BY <1>1, <1>5
<1>6. ASSUME NEW h \in Hash, h \in Requested(alloc)
      PROVE  alternates'[h] = anned[h] /\ announced'[h] = {} /\ alt[h] = {} /\ fet[h] = NoPeer
  BY <1>1, <1>2, <1>3, <1>6 DEF MapsOK
<1>7. MapsTyped(announces', announced', alternates', fetching', requests')
  <2>1. fetching' \in [Hash -> Peer \cup {NoPeer}]
    BY <1>1, <1>3, <1>4 DEF MapsTyped
  <2>2. requests' \in [Peer -> Request \cup {NoRequest}]
    BY <1>1, <1>2 DEF MapsTyped, NewRequest, Request
  <2> QED BY <1>1, <2>1, <2>2 DEF MapsTyped
<1>8. ~panicked' /\ panicked' \in BOOLEAN
  <2>1. ~ \E h \in Requested(alloc) : alt[h] # {}
    BY <1>2, <1>3, <1>6
  <2> QED BY <1>1, <2>1
<1>9. MapsOK(announces', announced', alternates', fetching', requests', timeoutTimer')
  <2>1. ASSUME NEW h \in Hash, NEW p \in Peer
        PROVE  fetching'[h] = p <=> h \in requests'[p].hashes \ requests'[p].stolen
    <3>1. CASE alloc[p] # {}
      <4>1. requests'[p].hashes = alloc[p] /\ requests'[p].stolen = {}
        BY <1>1, <3>1 DEF NewRequest
      <4>2. req[p] = NoRequest
        BY <1>2, <3>1 DEF MapsTyped, Request
      <4>3. fet[h] # p
        BY <4>2 DEF MapsOK, NoRequest
      <4> QED BY <1>3, <1>4, <1>5, <4>1, <4>3
    <3>2. CASE alloc[p] = {}
      <4>1. requests'[p] = req[p]
        BY <1>1, <3>2
      <4>2. CASE h \in Requested(alloc)
        BY <1>3, <1>4, <1>6, <3>2, <4>1, <4>2, PeerAssumption DEF MapsOK
      <4>3. CASE h \notin Requested(alloc)
        BY <1>5, <4>1, <4>3 DEF MapsOK
      <4> QED BY <4>2, <4>3
    <3> QED BY <3>1, <3>2
  <2>2. ASSUME NEW h \in Hash
        PROVE  /\ alternates'[h] # {} <=> fetching'[h] # NoPeer
               /\ fetching'[h] # NoPeer => announced'[h] = {}
    <3>1. CASE h \in Requested(alloc)
      BY <1>2, <1>3, <1>4, <1>6, <3>1, PeerAssumption DEF MapsOK
    <3>2. CASE h \notin Requested(alloc)
      BY <1>5, <3>2 DEF MapsOK
    <3> QED BY <3>1, <3>2
  <2>3. ASSUME NEW h \in Hash, NEW p \in Peer
        PROVE  /\ fetching'[h] = p => announces'[p][h] # NoMeta /\ p \in alternates'[h]
               /\ announces'[p][h] # NoMeta => p \in announced'[h] \cup alternates'[h]
    <3>1. CASE h \in Requested(alloc)
      BY <1>1, <1>2, <1>3, <1>4, <1>6, <3>1 DEF MapsOK
    <3>2. CASE h \notin Requested(alloc)
      BY <1>1, <1>5, <3>2 DEF MapsOK
    <3> QED BY <3>1, <3>2
  <2>4. timeoutTimer' \in BOOLEAN
    BY <1>1 DEF MapsOK
  <2>5. (\E p \in Peer : requests'[p].open) => timeoutTimer'
    <3>1. SUFFICES ASSUME NEW p \in Peer, requests'[p].open
                   PROVE  timeoutTimer'
      OBVIOUS
    <3>2. CASE alloc[p] = {}
      <4>1. requests'[p] = req[p]
        BY <1>1, <3>2
      <4>2. timer
        BY <3>1, <4>1 DEF MapsOK
      <4> QED BY <1>1, <4>2
    <3>3. CASE alloc[p] # {}
      <4>1. Requested(alloc) # {}
        BY <1>3, <3>3
      <4>2. Idle(req) \/ timer
        BY DEF Idle, MapsOK
      <4> QED BY <1>1, <4>1, <4>2
    <3> QED BY <3>2, <3>3
  <2> QED BY <2>1, <2>2, <2>3, <2>4, <2>5 DEF MapsOK
<1>10. \A h \in Hash : (anned[h] = {} /\ fet[h] = NoPeer) => (announced'[h] = {} /\ fetching'[h] = NoPeer)
  BY <1>2, <1>3, <1>5, <1>6 DEF MapsOK
<1> QED BY <1>7, <1>8, <1>9, <1>10 DEF Settled

\* The same for a handler that schedules nothing.
LEMMA KeepFacts ==
  ASSUME NEW ann, NEW anned, NEW alt, NEW fet, NEW req, NEW panic, panic = FALSE,
         MapsTyped(ann, anned, alt, fet, req), MapsOK(ann, anned, alt, fet, req, timeoutTimer),
         KeepFetches(ann, anned, alt, fet, req, panic)
  PROVE  Settled(anned, fet)
BY DEF KeepFetches, Settled

\* Stage 1 and stages 2 and 3 together make up the invariant.
LEMMA Combine ==
  ASSUME NEW anned, NEW fet, Settled(anned, fet),
         waitlist' \in [Hash -> SUBSET Peer],
         waittime' \in [Hash -> {"none", "fresh", "expired"}],
         waitslots' \in [Peer -> [Hash -> Slot]],
         waitTimer' \in BOOLEAN, running' \in BOOLEAN, removing' \in SUBSET Peer,
         \A h \in Hash, p \in Peer : p \in waitlist'[h] <=> waitslots'[p][h] # NoMeta,
         \A h \in Hash : waitlist'[h] # {} => waitTimer' /\ anned[h] = {} /\ fet[h] = NoPeer
  PROVE  IInv'
<1>1. TypeOK'
  BY DEF Settled, MapsTyped, MapsOK, TypeOK
<1>2. WaitOK'
  BY DEF Settled, WaitOK
<1> QED BY <1>1, <1>2 DEF Settled, IInv

\* The fetcher starts with empty maps.
LEMMA InitIInv == Init => IInv
<1> SUFFICES ASSUME Init PROVE IInv
  OBVIOUS
<1> USE DEF Init
<1>1. TypeOK
  BY DEF TypeOK, NoSlots, Slot
<1>2. MapsOK(announces, announced, alternates, fetching, requests, timeoutTimer)
  BY PeerAssumption DEF MapsOK, NoRequest, NoSlots
<1>3. WaitOK
  BY DEF WaitOK, NoSlots
<1> QED BY <1>1, <1>2, <1>3 DEF IInv

\* The notify case keeps them consistent.
LEMMA NotifyIInv ==
  ASSUME IInv, NEW p \in Peer, NEW metas \in [Hash -> Slot], LoopNotify(p, metas)
  PROVE  IInv'
<1>1. PICK take \in Accepted(Held(metas), Used(p)) :
       LET late  == {h \in take : Downloading(h)}
           wait  == take \ late
           ann   == [announces EXCEPT ![p] =
                       [h \in Hash |-> IF h \in late THEN metas[h] ELSE announces[p][h]]]
           alt   == [h \in Hash |-> IF h \in late /\ alternates[h] # {}
                                      THEN alternates[h] \cup {p} ELSE alternates[h]]
           anned == [h \in Hash |-> IF h \in late /\ alternates[h] = {}
                                      THEN announced[h] \cup {p} ELSE announced[h]]
       IN /\ waitlist' = [h \in Hash |-> IF h \in wait THEN waitlist[h] \cup {p} ELSE waitlist[h]]
          /\ waitslots' = [waitslots EXCEPT ![p] =
                             [h \in Hash |-> IF h \in wait /\ FirstAnnounce(h, p)
                                               THEN metas[h] ELSE waitslots[p][h]]]
          /\ waittime' = [h \in Hash |-> IF h \in wait /\ waitlist[h] = {} THEN "fresh" ELSE waittime[h]]
          /\ waitTimer' = (waitTimer \/ (IdleWait /\ wait # {}))
          /\ IF Held(announces[p]) = {} /\ Held(ann[p]) # {}
               THEN ScheduleFetches({p}, ann, anned, alt, fetching, requests, timeoutTimer, panicked)
               ELSE KeepFetches(ann, anned, alt, fetching, requests, panicked)
  BY DEF LoopNotify
<1> DEFINE late  == {h \in take : Downloading(h)}
           wait  == take \ late
           ann   == [announces EXCEPT ![p] =
                       [h \in Hash |-> IF h \in late THEN metas[h] ELSE announces[p][h]]]
           alt   == [h \in Hash |-> IF h \in late /\ alternates[h] # {}
                                      THEN alternates[h] \cup {p} ELSE alternates[h]]
           anned == [h \in Hash |-> IF h \in late /\ alternates[h] = {}
                                      THEN announced[h] \cup {p} ELSE announced[h]]
<1>2. take \subseteq Held(metas)
  BY DEF Accepted
<1>3. \A h \in take : h \in Hash /\ metas[h] # NoMeta
  BY <1>2 DEF Held
<1>4. MapsTyped(ann, anned, alt, fetching, requests)
  BY DEF IInv, TypeOK, MapsTyped
<1>5. MapsOK(ann, anned, alt, fetching, requests, timeoutTimer)
  BY <1>3 DEF IInv, TypeOK, MapsOK, Downloading
<1>6. panicked = FALSE
  BY DEF IInv, TypeOK
<1>7. Settled(anned, fetching)
  <2>1. CASE Held(announces[p]) = {} /\ Held(ann[p]) # {}
    <3>1. ScheduleFetches({p}, ann, anned, alt, fetching, requests, timeoutTimer, panicked)
      BY <1>1, <2>1
    <3> HIDE DEF ann, anned, alt
    <3> QED BY <1>4, <1>5, <1>6, <3>1, ScheduleFacts
  <2>2. CASE ~(Held(announces[p]) = {} /\ Held(ann[p]) # {})
    <3>1. KeepFetches(ann, anned, alt, fetching, requests, panicked)
      BY <1>1, <2>2
    <3> HIDE DEF ann, anned, alt
    <3> QED BY <1>4, <1>5, <1>6, <3>1, KeepFacts
  <2> QED BY <2>1, <2>2
<1>8. /\ waitlist' \in [Hash -> SUBSET Peer]
      /\ waittime' \in [Hash -> {"none", "fresh", "expired"}]
      /\ waitslots' \in [Peer -> [Hash -> Slot]]
      /\ waitTimer' \in BOOLEAN
  BY <1>1 DEF IInv, TypeOK
<1>9. running' \in BOOLEAN /\ removing' \in SUBSET Peer
  BY DEF IInv, TypeOK, LoopNotify
<1>10. \A h \in Hash, q \in Peer : q \in waitlist'[h] <=> waitslots'[q][h] # NoMeta
  BY <1>1, <1>3 DEF IInv, TypeOK, WaitOK, FirstAnnounce
<1>11. \A h \in Hash : waitlist'[h] # {} => waitTimer' /\ anned[h] = {} /\ fetching[h] = NoPeer
  BY <1>1, <1>3 DEF IInv, TypeOK, WaitOK, MapsOK, IdleWait, Waiting, Downloading
<1> HIDE DEF anned
<1> QED BY <1>7, <1>8, <1>9, <1>10, <1>11, Combine

\* A request is open, or there is none and it lists nothing.
LEMMA RequestFacts ==
  ASSUME NEW r \in Request \cup {NoRequest}
  PROVE  /\ r.hashes \subseteq Hash /\ r.stolen \subseteq Hash /\ Undelivered(r) \subseteq Hash
         /\ r.open => r \in Request /\ Dangling(r) \in Request /\ Dangling(r).hashes = {}
         /\ ~r.open => r = NoRequest /\ Undelivered(r) = {}
<1>1. CASE r = NoRequest
  BY <1>1 DEF NoRequest, Undelivered
<1>2. CASE r \in Request
  <2>1. r.open = TRUE /\ r.hashes \subseteq Hash /\ r.stolen \subseteq Hash /\ r.time \in {"fresh", "expired"}
    BY <1>2 DEF Request
  <2>2. Dangling(r) = [open |-> r.open, hashes |-> {}, stolen |-> r.stolen, time |-> r.time]
    BY <1>2 DEF Request, Dangling
  <2>3. Dangling(r).hashes = {}
    BY <2>2
  <2>4. \A t \in SUBSET Hash, d \in {"fresh", "expired"} :
          [open |-> TRUE, hashes |-> {}, stolen |-> t, time |-> d] \in Request
    BY DEF Request
  <2>5. Dangling(r) \in Request
    BY <2>1, <2>2, <2>4
  <2> QED BY <1>2, <2>1, <2>3, <2>5 DEF Undelivered
<1> QED BY <1>1, <1>2

\* The wait timer case: what is queued was in no other stage.
LEMMA WaitIInv ==
  ASSUME IInv, LoopWait
  PROVE  IInv'
<1> DEFINE exp     == {h \in Waiting : waittime[h] = "expired"}
           anned   == [h \in Hash |-> IF h \in exp THEN waitlist[h] ELSE announced[h]]
           actives == UNION {waitlist[h] : h \in exp}
           ann     == [p \in Peer |-> [h \in Hash |-> IF h \in exp /\ p \in waitlist[h]
                                                       THEN waitslots[p][h] ELSE announces[p][h]]]
           panic   == panicked \/ \E h \in exp : announced[h] # {}
<1>1. /\ waitlist' = [h \in Hash |-> IF h \in exp THEN {} ELSE waitlist[h]]
      /\ waittime' = [h \in Hash |-> IF h \in exp THEN "none" ELSE waittime[h]]
      /\ waitslots' = [p \in Peer |-> [h \in Hash |-> IF h \in exp /\ p \in waitlist[h]
                                                        THEN NoMeta ELSE waitslots[p][h]]]
      /\ waitTimer' = StillWaiting(exp)
      /\ IF actives # {}
           THEN ScheduleFetches(actives, ann, anned, alternates, fetching, requests, timeoutTimer, panic)
           ELSE KeepFetches(ann, anned, alternates, fetching, requests, panic)
      /\ UNCHANGED <<running, removing>>
  BY DEF LoopWait
<1>2. exp \subseteq Hash /\ actives \subseteq Peer
  BY DEF IInv, TypeOK, Waiting
<1>3. \A h \in exp : announced[h] = {} /\ fetching[h] = NoPeer /\ alternates[h] = {}
  BY DEF IInv, WaitOK, MapsOK, Waiting
<1>4. MapsTyped(ann, anned, alternates, fetching, requests)
  BY <1>2 DEF IInv, TypeOK, MapsTyped
<1>5. MapsOK(ann, anned, alternates, fetching, requests, timeoutTimer)
  BY <1>2, <1>3 DEF IInv, TypeOK, MapsOK, WaitOK
<1>6. panic = FALSE
  BY <1>3 DEF IInv, TypeOK
<1>7. Settled(anned, fetching)
  <2>1. CASE actives # {}
    <3>1. ScheduleFetches(actives, ann, anned, alternates, fetching, requests, timeoutTimer, panic)
      BY <1>1, <2>1
    <3> HIDE DEF actives, ann, anned, panic
    <3> QED BY <1>2, <1>4, <1>5, <1>6, <3>1, ScheduleFacts
  <2>2. CASE actives = {}
    <3>1. KeepFetches(ann, anned, alternates, fetching, requests, panic)
      BY <1>1, <2>2
    <3> HIDE DEF actives, ann, anned, panic
    <3> QED BY <1>4, <1>5, <1>6, <3>1, KeepFacts
  <2> QED BY <2>1, <2>2
<1>8. /\ waitlist' \in [Hash -> SUBSET Peer]
      /\ waittime' \in [Hash -> {"none", "fresh", "expired"}]
      /\ waitslots' \in [Peer -> [Hash -> Slot]]
      /\ waitTimer' \in BOOLEAN /\ running' \in BOOLEAN /\ removing' \in SUBSET Peer
  BY <1>1 DEF IInv, TypeOK, StillWaiting, Slot
<1>9. \A h \in Hash, q \in Peer : q \in waitlist'[h] <=> waitslots'[q][h] # NoMeta
  BY <1>1 DEF IInv, TypeOK, WaitOK
<1>10. \A h \in Hash : waitlist'[h] # {} => waitTimer' /\ anned[h] = {} /\ fetching[h] = NoPeer
  BY <1>1 DEF IInv, TypeOK, WaitOK, StillWaiting, Waiting
<1> HIDE DEF anned
<1> QED BY <1>7, <1>8, <1>9, <1>10, Combine

\* The request timer case: what is queued again was in flight with the late peer only.
LEMMA TimeoutIInv ==
  ASSUME IInv, LoopTimeout
  PROVE  IInv'
<1> DEFINE late    == {p \in Peer : requests[p].open /\ requests[p].time = "expired"}
           Back(p) == IF p \in late THEN Undelivered(requests[p]) ELSE {}
           back    == UNION {Back(p) : p \in late}
           anned   == [h \in Hash |-> IF h \in back
                         THEN OtherOrigins(h, CHOOSE p \in late : h \in Back(p)) ELSE announced[h]]
           ann     == [p \in Peer |-> [h \in Hash |-> IF h \in Back(p) THEN NoMeta ELSE announces[p][h]]]
           alt     == [h \in Hash |-> IF h \in back THEN {} ELSE alternates[h]]
           fet     == [h \in Hash |-> IF h \in back THEN NoPeer ELSE fetching[h]]
           req     == [p \in Peer |-> IF p \in late THEN Dangling(requests[p]) ELSE requests[p]]
           panic   == panicked \/ \E h \in back : announced[h] # {}
<1>1. /\ ScheduleFetches(Announcers(ann), ann, anned, alt, fet, req, TRUE, panic)
      /\ UNCHANGED <<waitVars, waitTimer, running, removing>>
  BY DEF LoopTimeout
<1>2. ASSUME NEW h \in Hash, h \in back
      PROVE  /\ fetching[h] \in late /\ h \in Back(fetching[h])
             /\ anned[h] = alternates[h] \ {fetching[h]} /\ announced[h] = {}
  <2>1. PICK p \in late : h \in Back(p)
    BY <1>2
  <2>2. \A q \in late : h \in Back(q) => fetching[h] = q
    BY DEF IInv, MapsOK, Undelivered
  <2>3. fetching[h] \in late /\ h \in Back(fetching[h])
    BY <2>1, <2>2
  <2>4. (CHOOSE q \in late : h \in Back(q)) = fetching[h]
    BY <2>2, <2>3
  <2>5. announced[h] = {}
    BY <2>3, PeerAssumption DEF IInv, MapsOK
  <2> QED BY <1>2, <2>3, <2>4, <2>5 DEF OtherOrigins
<1>3. ASSUME NEW h \in Hash, h \notin back
      PROVE  \A p \in Peer : h \notin Back(p)
  BY <1>3
<1>4. MapsTyped(ann, anned, alt, fet, req)
  <2>1. anned \in [Hash -> SUBSET Peer]
    BY <1>2 DEF IInv, TypeOK
  <2>2. req \in [Peer -> Request \cup {NoRequest}]
    BY RequestFacts DEF IInv, TypeOK
  <2> QED BY <2>1, <2>2 DEF IInv, TypeOK, MapsTyped, Slot
<1>5. MapsOK(ann, anned, alt, fet, req, TRUE)
  <2>1. ASSUME NEW h \in Hash, NEW p \in Peer
        PROVE  fet[h] = p <=> h \in req[p].hashes \ req[p].stolen
    <3>1. CASE p \in late
      <4>1. req[p].hashes = {}
        BY <3>1 DEF IInv, TypeOK, Request, NoRequest, Dangling
      <4>2. fet[h] # p
        BY <3>1, PeerAssumption DEF IInv, TypeOK, MapsOK, Undelivered
      <4> QED BY <4>1, <4>2
    <3>2. CASE p \notin late
      <4>1. fetching[h] = p <=> h \in req[p].hashes \ req[p].stolen
        BY <3>2 DEF IInv, MapsOK
      <4>2. fet[h] = p <=> fetching[h] = p
        BY <1>2, <3>2, PeerAssumption
      <4> QED BY <4>1, <4>2
    <3> QED BY <3>1, <3>2
  <2>2. ASSUME NEW h \in Hash
        PROVE  /\ alt[h] # {} <=> fet[h] # NoPeer
               /\ fet[h] # NoPeer => anned[h] = {}
    BY DEF IInv, MapsOK
  <2>3. ASSUME NEW h \in Hash, NEW p \in Peer
        PROVE  /\ fet[h] = p => ann[p][h] # NoMeta /\ p \in alt[h]
               /\ ann[p][h] # NoMeta => p \in anned[h] \cup alt[h]
    <3>1. CASE h \in back
      BY <1>2, <3>1, PeerAssumption DEF IInv, MapsOK
    <3>2. CASE h \notin back
      BY <1>3, <3>2 DEF IInv, MapsOK
    <3> QED BY <3>1, <3>2
  <2> HIDE DEF ann, anned, alt, fet, req
  <2> QED BY <2>1, <2>2, <2>3 DEF MapsOK
<1>6. panic = FALSE
  <2>1. back \subseteq Hash
    BY RequestFacts DEF IInv, TypeOK
  <2> QED BY <1>2, <2>1 DEF IInv, TypeOK
<1>7. Settled(anned, fet)
  <2>1. Announcers(ann) \subseteq Peer
    BY DEF Announcers
  <2> HIDE DEF ann, anned, alt, fet, req, panic
  <2> QED BY <1>1, <1>4, <1>5, <1>6, <2>1, ScheduleFacts
<1>8. \A h \in Hash : waitlist[h] # {} => waitTimer /\ anned[h] = {} /\ fet[h] = NoPeer
  BY <1>2, PeerAssumption DEF IInv, TypeOK, WaitOK
<1>9. /\ waitlist' = waitlist /\ waittime' = waittime /\ waitslots' = waitslots
      /\ waitTimer' = waitTimer /\ running' = running /\ removing' = removing
  BY <1>1 DEF waitVars
<1> HIDE DEF anned, fet
<1>10. /\ waitlist' \in [Hash -> SUBSET Peer]
       /\ waittime' \in [Hash -> {"none", "fresh", "expired"}]
       /\ waitslots' \in [Peer -> [Hash -> Slot]]
       /\ waitTimer' \in BOOLEAN /\ running' \in BOOLEAN /\ removing' \in SUBSET Peer
  BY <1>9 DEF IInv, TypeOK
<1>11. \A h \in Hash, q \in Peer : q \in waitlist'[h] <=> waitslots'[q][h] # NoMeta
  BY <1>9 DEF IInv, WaitOK
<1>12. \A h \in Hash : waitlist'[h] # {} => waitTimer' /\ anned[h] = {} /\ fet[h] = NoPeer
  BY <1>8, <1>9
<1> QED BY <1>7, <1>10, <1>11, <1>12, Combine

\* Marking hashes of a request as stolen changes nothing else of it.
LEMMA StolenFacts ==
  ASSUME NEW r \in Request \cup {NoRequest}, NEW S \in SUBSET Hash, S # {} => r.open
  PROVE  LET s == [r EXCEPT !.stolen = @ \cup S]
         IN  /\ s \in Request \cup {NoRequest}
             /\ s.open = r.open /\ s.hashes = r.hashes /\ s.stolen = r.stolen \cup S
<1> DEFINE s == [r EXCEPT !.stolen = @ \cup S]
<1>1. CASE r = NoRequest
  <2>1. S = {}
    BY <1>1 DEF NoRequest
  <2>2. s = NoRequest
    BY <1>1, <2>1 DEF NoRequest
  <2> QED BY <1>1, <2>1, <2>2 DEF NoRequest
<1>2. CASE r \in Request
  <2>1. r.open = TRUE /\ r.hashes \in SUBSET Hash /\ r.stolen \in SUBSET Hash /\ r.time \in {"fresh", "expired"}
    BY <1>2 DEF Request
  <2>2. s = [open |-> r.open, hashes |-> r.hashes, stolen |-> r.stolen \cup S, time |-> r.time]
    BY <1>2 DEF Request
  <2>3. \A hs \in SUBSET Hash, t \in SUBSET Hash, d \in {"fresh", "expired"} :
          [open |-> TRUE, hashes |-> hs, stolen |-> t, time |-> d] \in Request
    BY DEF Request
  <2>4. s \in Request
    <3>1. s = [open |-> TRUE, hashes |-> r.hashes, stolen |-> r.stolen \cup S, time |-> r.time]
      BY <2>1, <2>2
    <3>2. r.stolen \cup S \in SUBSET Hash
      BY <2>1
    <3> HIDE DEF s
    <3> QED BY <2>1, <2>3, <3>1, <3>2
  <2> QED BY <2>2, <2>4
<1> QED BY <1>1, <1>2

\* The cleanup case, with or without a request of the sender.
LEMMA CleanupIInv ==
  ASSUME IInv, NEW p \in Peer, NEW hashes \in SUBSET Hash, NEW direct \in BOOLEAN,
         LoopCleanup(p, hashes, direct)
  PROVE  IInv'
<1> DEFINE Clear(f, S, none) == [h \in Hash |-> IF h \in S THEN none ELSE f[h]]
           wait   == hashes \cap Waiting
           rest   == hashes \ wait
           bad    == {q \in Peer : \/ \E h \in wait : Mismatch(waitslots[q][h], h)
                                   \/ \E h \in rest : Mismatch(announces[q][h], h)}
           ann    == [q \in Peer |-> Clear(announces[q], rest, NoMeta)]
           anned  == Clear(announced, rest, {})
           alt    == Clear(alternates, rest, {})
           fet    == Clear(fetching, rest, NoPeer)
           Stolen(q) == {h \in rest : fetching[h] = q /\ IsStolen(h, p, direct)}
           req    == [q \in Peer |-> [requests[q] EXCEPT !.stolen = @ \cup Stolen(q)]]
           panic  == panicked \/ \E q \in Peer : Stolen(q) # {} /\ ~requests[q].open
           open    == Undelivered(req[p])
           missing == open \ hashes
           Left(skip, h) == IF h \in skip THEN alt[h] \ {p} ELSE alt[h]
           back(skip)    == {h \in missing : Left(skip, h) # {}}
           ann2(skip)    == [ann EXCEPT ![p] = Clear(ann[p], skip, NoMeta)]
           anned2(skip)  == [h \in Hash |-> IF h \in back(skip) THEN Left(skip, h) ELSE anned[h]]
           alt2   == Clear(alt, open, {})
           fet2   == Clear(fet, open, NoPeer)
           req2   == [req EXCEPT ![p] = NoRequest]
           panic2(skip) == panic \/ \E h \in back(skip) : anned[h] # {}
<1>1. /\ removing' = removing \cup bad
      /\ waitlist' = Clear(waitlist, wait, {})
      /\ waittime' = Clear(waittime, wait, "none")
      /\ waitslots' = [q \in Peer |-> Clear(waitslots[q], wait, NoMeta)]
      /\ waitTimer' = waitTimer /\ running' = running
  BY DEF LoopCleanup
<1>2. requests \in [Peer -> Request \cup {NoRequest}] /\ panicked = FALSE
  BY DEF IInv, TypeOK
<1>3. ASSUME NEW q \in Peer
      PROVE  /\ Stolen(q) \in SUBSET Hash /\ (Stolen(q) # {} => requests[q].open)
             /\ req[q] \in Request \cup {NoRequest} /\ req[q].open = requests[q].open
             /\ req[q].hashes = requests[q].hashes
             /\ req[q].stolen = requests[q].stolen \cup Stolen(q)
  <2>1. \A h \in Stolen(q) : h \in requests[q].hashes
    BY DEF IInv, MapsOK
  <2>2. Stolen(q) # {} => requests[q].open
    <3>1. ~requests[q].open => requests[q].hashes = {}
      BY <1>2, RequestFacts DEF NoRequest
    <3> QED BY <2>1, <3>1
  <2>3. Stolen(q) \in SUBSET Hash
    OBVIOUS
  <2>4. req[q] = [requests[q] EXCEPT !.stolen = @ \cup Stolen(q)]
    OBVIOUS
  <2> HIDE DEF Stolen, req
  <2> QED BY <1>2, <2>2, <2>3, <2>4, StolenFacts
<1>4. panic = FALSE
  BY <1>2, <1>3
<1>5. /\ MapsTyped(ann, anned, alt, fet, req)
  <2>1. req \in [Peer -> Request \cup {NoRequest}]
    BY <1>3
  <2> QED BY <2>1 DEF IInv, TypeOK, MapsTyped, Slot
<1>6. ASSUME NEW h \in Hash
      PROVE  /\ h \in rest => alt[h] = {} /\ fet[h] = NoPeer /\ anned[h] = {} /\ \A q \in Peer : ann[q][h] = NoMeta
             /\ h \notin rest => /\ alt[h] = alternates[h] /\ fet[h] = fetching[h]
                                 /\ anned[h] = announced[h] /\ \A q \in Peer : ann[q][h] = announces[q][h]
             /\ fetching[h] # NoPeer /\ h \in hashes => h \in rest
  BY DEF IInv, WaitOK, Waiting
<1>7. ASSUME NEW h \in Hash, NEW q \in Peer, ~(h \in rest /\ q = p /\ direct)
      PROVE  fet[h] = q <=> h \in req[q].hashes \ req[q].stolen
  <2>1. fetching[h] = q <=> h \in requests[q].hashes \ requests[q].stolen
    BY DEF IInv, MapsOK
  <2>2. h \in Stolen(q) <=> h \in rest /\ fetching[h] = q
    BY <1>7, PeerAssumption DEF IsStolen
  <2>3. fet[h] = q <=> h \notin rest /\ fetching[h] = q
    BY <1>6, PeerAssumption
  <2> HIDE DEF fet, req, Stolen, rest
  <2> QED BY <1>3, <2>1, <2>2, <2>3
<1>10. /\ waitlist' \in [Hash -> SUBSET Peer]
       /\ waittime' \in [Hash -> {"none", "fresh", "expired"}]
       /\ waitslots' \in [Peer -> [Hash -> Slot]]
       /\ waitTimer' \in BOOLEAN /\ running' \in BOOLEAN /\ removing' \in SUBSET Peer
  BY <1>1 DEF IInv, TypeOK, Slot
<1>11. \A h \in Hash, q \in Peer : q \in waitlist'[h] <=> waitslots'[q][h] # NoMeta
  BY <1>1 DEF IInv, TypeOK, WaitOK
<1>12. \A h \in Hash : waitlist'[h] # {} => waitTimer' /\ announced[h] = {} /\ fetching[h] = NoPeer
  BY <1>1 DEF IInv, TypeOK, WaitOK
<1>8. CASE ~direct \/ ~req[p].open
  <2>1. KeepFetches(ann, anned, alt, fet, req, panic)
    BY <1>8 DEF LoopCleanup
  <2>2. ASSUME NEW h \in Hash, NEW q \in Peer
        PROVE  fet[h] = q <=> h \in req[q].hashes \ req[q].stolen
    <3>1. CASE ~(h \in rest /\ q = p /\ direct)
      BY <1>7, <3>1
    <3>2. CASE h \in rest /\ q = p /\ direct
      <4>1. requests[p] = NoRequest
        BY <1>2, <1>3, <1>8, <3>2, RequestFacts
      <4>2. req[p].hashes = {}
        BY <1>3, <4>1 DEF NoRequest
      <4>3. fet[h] = NoPeer
        BY <1>6, <3>2
      <4> QED BY <3>2, <4>2, <4>3, PeerAssumption
    <3> QED BY <3>1, <3>2
  <2>3. ASSUME NEW h \in Hash
        PROVE  /\ alt[h] # {} <=> fet[h] # NoPeer
               /\ fet[h] # NoPeer => anned[h] = {}
               /\ \A q \in Peer : /\ fet[h] = q => ann[q][h] # NoMeta /\ q \in alt[h]
                                  /\ ann[q][h] # NoMeta => q \in anned[h] \cup alt[h]
    <3> HIDE DEF ann, anned, alt, fet, rest
    <3> QED BY <1>6, PeerAssumption DEF IInv, MapsOK
  <2>4. timeoutTimer \in BOOLEAN /\ ((\E q \in Peer : req[q].open) => timeoutTimer)
    BY <1>3 DEF IInv, MapsOK
  <2> HIDE DEF ann, anned, alt, fet, req, panic
  <2>5. MapsOK(ann, anned, alt, fet, req, timeoutTimer)
    BY <2>2, <2>3, <2>4 DEF MapsOK
  <2>6. Settled(anned, fet)
    BY <1>4, <1>5, <2>1, <2>5, KeepFacts
  <2>7. \A h \in Hash : waitlist'[h] # {} => waitTimer' /\ anned[h] = {} /\ fet[h] = NoPeer
    BY <1>6, <1>12
  <2> QED BY <1>10, <1>11, <2>6, <2>7, Combine
<1>9. CASE ~(~direct \/ ~req[p].open)
  <2>1. PICK skip \in Skipped(req[p], missing, hashes) :
          ScheduleFetches(Announcers(ann2(skip)), ann2(skip), anned2(skip), alt2, fet2, req2,
                          timeoutTimer, panic2(skip))
    BY <1>9 DEF LoopCleanup
  <2>2. open = {h \in Hash : fetching[h] = p}
    <3>1. Stolen(p) = {}
      BY <1>9 DEF IsStolen
    <3>2. open = requests[p].hashes \ requests[p].stolen
      BY <1>3, <3>1 DEF Undelivered
    <3>3. requests[p].hashes \subseteq Hash
      BY <1>2, RequestFacts
    <3> HIDE DEF open
    <3> QED BY <3>2, <3>3 DEF IInv, MapsOK
  <2>3. skip \subseteq missing
    BY <2>1 DEF Skipped
  <2> HIDE DEF open
  \* A hash that is delivered, one that this request did not deliver, any other.
  <2>4. ASSUME NEW h \in Hash, h \in rest
        PROVE  /\ alt2[h] = {} /\ fet2[h] = NoPeer /\ anned2(skip)[h] = {}
               /\ \A q \in Peer : ann2(skip)[q][h] = NoMeta
    BY <1>6, <2>4
  <2>5. ASSUME NEW h \in Hash, h \notin rest, h \in open
        PROVE  /\ alt2[h] = {} /\ fet2[h] = NoPeer /\ announced[h] = {}
               /\ anned2(skip)[h] = IF h \in skip THEN alternates[h] \ {p} ELSE alternates[h]
               /\ h \in skip => ann2(skip)[p][h] = NoMeta
               /\ \A q \in Peer : (q # p \/ h \notin skip) => ann2(skip)[q][h] = announces[q][h]
    <3>1. h \in missing /\ announced[h] = {} /\ alt[h] = alternates[h] /\ anned[h] = announced[h]
      BY <1>6, <2>2, <2>5, PeerAssumption DEF IInv, MapsOK
    <3>2. anned2(skip)[h] = Left(skip, h)
      BY <3>1
    <3> QED BY <1>6, <2>5, <3>1, <3>2
  <2>6. ASSUME NEW h \in Hash, h \notin rest, h \notin open
        PROVE  /\ alt2[h] = alternates[h] /\ fet2[h] = fetching[h] /\ anned2(skip)[h] = announced[h]
               /\ \A q \in Peer : ann2(skip)[q][h] = announces[q][h]
    BY <1>6, <2>3, <2>6
  <2>7. MapsTyped(ann2(skip), anned2(skip), alt2, fet2, req2)
    <3> HIDE DEF ann, anned, alt, fet, req
    <3> QED BY <1>5 DEF MapsTyped, Slot
  <2>8. ASSUME NEW h \in Hash, NEW q \in Peer
        PROVE  fet2[h] = q <=> h \in req2[q].hashes \ req2[q].stolen
    <3>1. CASE q = p
      <4>1. req2[q].hashes = {}
        BY <3>1 DEF NoRequest
      <4>2. fet2[h] # p
        BY <2>2, <2>4, <2>5, <2>6, PeerAssumption
      <4> QED BY <3>1, <4>1, <4>2
    <3>2. CASE q # p
      <4>1. req2[q] = req[q]
        BY <3>2
      <4>2. fet2[h] = q <=> fet[h] = q
        BY <1>6, <2>2, <2>4, <2>5, <2>6, <3>2, PeerAssumption
      <4> HIDE DEF fet, fet2, req, req2, rest
      <4> QED BY <1>7, <3>2, <4>1, <4>2
    <3> QED BY <3>1, <3>2
  <2>9. timeoutTimer \in BOOLEAN /\ ((\E q \in Peer : req2[q].open) => timeoutTimer)
    BY <1>3 DEF IInv, MapsOK, NoRequest
  <2>10. panic2(skip) = FALSE
    BY <1>4, <1>6, <2>2, PeerAssumption DEF IInv, MapsOK
  <2>11. \A h \in Hash : waitlist'[h] # {} => waitTimer' /\ anned2(skip)[h] = {} /\ fet2[h] = NoPeer
    BY <1>12, <2>2, <2>4, <2>6, PeerAssumption
  <2>12. Announcers(ann2(skip)) \subseteq Peer
    BY DEF Announcers
  <2> HIDE DEF rest, ann2, anned2, alt2, fet2, req2, panic2
  <2>13. ASSUME NEW h \in Hash
         PROVE  /\ alt2[h] # {} <=> fet2[h] # NoPeer
                /\ fet2[h] # NoPeer => anned2(skip)[h] = {}
                /\ \A q \in Peer : /\ fet2[h] = q => ann2(skip)[q][h] # NoMeta /\ q \in alt2[h]
                                   /\ ann2(skip)[q][h] # NoMeta => q \in anned2(skip)[h] \cup alt2[h]
    <3>1. CASE h \in rest
      BY <2>4, <3>1, PeerAssumption
    <3>2. CASE h \notin rest /\ h \in open
      <4>1. /\ alt2[h] = {} /\ fet2[h] = NoPeer /\ announced[h] = {}
            /\ anned2(skip)[h] = IF h \in skip THEN alternates[h] \ {p} ELSE alternates[h]
            /\ h \in skip => ann2(skip)[p][h] = NoMeta
            /\ \A q \in Peer : (q # p \/ h \notin skip) => ann2(skip)[q][h] = announces[q][h]
        BY <2>5, <3>2
      <4>2. \A q \in Peer : announces[q][h] # NoMeta => q \in alternates[h]
        BY <4>1 DEF IInv, MapsOK
      <4> QED BY <4>1, <4>2, PeerAssumption
    <3>3. CASE h \notin rest /\ h \notin open
      <4>1. /\ alt2[h] = alternates[h] /\ fet2[h] = fetching[h] /\ anned2(skip)[h] = announced[h]
            /\ \A q \in Peer : ann2(skip)[q][h] = announces[q][h]
        BY <2>6, <3>3
      <4> QED BY <4>1 DEF IInv, MapsOK
    <3> QED BY <3>1, <3>2, <3>3
  <2>14. MapsOK(ann2(skip), anned2(skip), alt2, fet2, req2, timeoutTimer)
    BY <2>8, <2>9, <2>13 DEF MapsOK
  <2>15. Settled(anned2(skip), fet2)
    BY <2>1, <2>7, <2>10, <2>12, <2>14, ScheduleFacts
  <2> QED BY <1>10, <1>11, <2>11, <2>15, Combine
<1> QED BY <1>8, <1>9

\* The drop case.
LEMMA DropIInv ==
  ASSUME IInv, NEW p \in Peer, LoopDrop(p)
  PROVE  IInv'
<1> DEFINE mine  == Held(waitslots[p])
           open  == Undelivered(requests[p])
           Requeued(h) == h \in open /\ OtherOrigins(h, p) # {}
           anned == [h \in Hash |-> (IF Requeued(h) THEN OtherOrigins(h, p) ELSE announced[h])
                                     \ (IF announces[p][h] # NoMeta THEN {p} ELSE {})]
           ann   == [announces EXCEPT ![p] = NoSlots]
           alt   == [h \in Hash |-> IF h \in open THEN {} ELSE alternates[h]]
           fet   == [h \in Hash |-> IF h \in open THEN NoPeer ELSE fetching[h]]
           left  == [h \in Hash |-> IF h \in mine THEN OtherWaiters(h, p) ELSE waitlist[h]]
           req   == [requests EXCEPT ![p] = NoRequest]
<1>1. /\ waitlist' = left
      /\ waittime' = [h \in Hash |-> IF h \in mine /\ left[h] = {} THEN "none" ELSE waittime[h]]
      /\ waitslots' = [waitslots EXCEPT ![p] = NoSlots]
      /\ waitTimer' = (waitTimer \/ (mine # {} /\ \E h \in Hash : left[h] # {}))
      /\ running' = running /\ removing' = removing
  BY DEF LoopDrop
<1>2. IF requests[p].open
        THEN ScheduleFetches(Announcers(ann), ann, anned, alt, fet, req, TRUE, panicked)
        ELSE KeepFetches(ann, anned, alternates, fetching, requests, panicked)
  BY DEF LoopDrop
<1>3. /\ requests[p] \in Request \cup {NoRequest} /\ panicked = FALSE
      /\ open \subseteq Hash /\ (~requests[p].open => requests[p] = NoRequest /\ open = {})
  BY RequestFacts DEF IInv, TypeOK
<1>4. open = {h \in Hash : fetching[h] = p}
  BY <1>3 DEF IInv, MapsOK, Undelivered
<1>5. MapsTyped(ann, anned, alt, fet, req)
  BY DEF IInv, TypeOK, MapsTyped, Slot, NoSlots, OtherOrigins
<1> HIDE DEF open
<1>6. ASSUME NEW h \in Hash, h \in open
      PROVE  /\ alt[h] = {} /\ fet[h] = NoPeer /\ announced[h] = {}
             /\ anned[h] = alternates[h] \ {p}
  BY <1>4, <1>6, PeerAssumption DEF IInv, MapsOK, OtherOrigins
<1>7. ASSUME NEW h \in Hash, h \notin open
      PROVE  /\ alt[h] = alternates[h] /\ fet[h] = fetching[h] /\ fetching[h] # p
             /\ announced[h] \ {p} \subseteq anned[h] /\ anned[h] \subseteq announced[h]
  BY <1>4, <1>7
<1>8. /\ \A h \in Hash : ann[p][h] = NoMeta
      /\ \A q \in Peer \ {p} : ann[q] = announces[q]
  BY DEF NoSlots, IInv, TypeOK
<1>9. ASSUME NEW h \in Hash, NEW q \in Peer
      PROVE  fet[h] = q <=> h \in req[q].hashes \ req[q].stolen
  <2>1. CASE q = p
    <3>1. req[q].hashes = {}
      BY <2>1 DEF NoRequest, IInv, TypeOK
    <3>2. fet[h] # q
      BY <1>6, <1>7, <2>1, PeerAssumption
    <3> QED BY <3>1, <3>2
  <2>2. CASE q # p
    <3>1. req[q] = requests[q]
      BY <2>2 DEF IInv, TypeOK
    <3>2. fet[h] = q <=> fetching[h] = q
      BY <1>4, <1>6, <1>7, <2>2, PeerAssumption
    <3> HIDE DEF fet, req
    <3> QED BY <3>1, <3>2 DEF IInv, MapsOK
  <2> QED BY <2>1, <2>2
<1>10. ASSUME NEW h \in Hash
       PROVE  /\ alt[h] # {} <=> fet[h] # NoPeer
              /\ fet[h] # NoPeer => anned[h] = {}
              /\ \A q \in Peer : /\ fet[h] = q => ann[q][h] # NoMeta /\ q \in alt[h]
                                 /\ ann[q][h] # NoMeta => q \in anned[h] \cup alt[h]
  <2> HIDE DEF ann, anned, alt, fet
  <2>1. CASE h \in open
    <3>1. \A q \in Peer : announces[q][h] # NoMeta => q \in alternates[h]
      BY <1>6, <2>1 DEF IInv, MapsOK
    <3> QED BY <1>6, <1>8, <2>1, <3>1, PeerAssumption
  <2>2. CASE h \notin open
    BY <1>7, <1>8, <2>2 DEF IInv, MapsOK
  <2> QED BY <2>1, <2>2
<1>11. Settled(anned, fet)
  <2>1. MapsOK(ann, anned, alt, fet, req, TRUE)
    <3> HIDE DEF ann, anned, alt, fet, req
    <3> QED BY <1>9, <1>10 DEF MapsOK
  <2>2. CASE requests[p].open
    <3>1. ScheduleFetches(Announcers(ann), ann, anned, alt, fet, req, TRUE, panicked)
      BY <1>2, <2>2
    <3>2. Announcers(ann) \subseteq Peer
      BY DEF Announcers
    <3> HIDE DEF ann, anned, alt, fet, req
    <3> QED BY <1>3, <1>5, <2>1, <3>1, <3>2, ScheduleFacts
  <2>3. CASE ~requests[p].open
    <3>1. alt = alternates /\ fet = fetching /\ req = requests
      BY <1>3, <2>3 DEF IInv, TypeOK
    <3>2. KeepFetches(ann, anned, alternates, fetching, requests, panicked)
      BY <1>2, <2>3
    <3>3. timeoutTimer \in BOOLEAN /\ ((\E q \in Peer : requests[q].open) => timeoutTimer)
      BY DEF IInv, MapsOK
    <3> HIDE DEF ann, anned, alt, fet, req
    <3>4. MapsOK(ann, anned, alternates, fetching, requests, timeoutTimer)
      BY <2>1, <3>1, <3>3 DEF MapsOK
    <3> QED BY <1>3, <1>5, <3>1, <3>2, <3>4, KeepFacts
  <2> QED BY <2>2, <2>3
<1>12. left \in [Hash -> SUBSET Peer] /\ \A h \in Hash : left[h] = waitlist[h] \ {p}
  BY DEF IInv, TypeOK, WaitOK, OtherWaiters, Held
<1> HIDE DEF left
<1>13. /\ waitlist' \in [Hash -> SUBSET Peer]
       /\ waittime' \in [Hash -> {"none", "fresh", "expired"}]
       /\ waitslots' \in [Peer -> [Hash -> Slot]]
       /\ waitTimer' \in BOOLEAN /\ running' \in BOOLEAN /\ removing' \in SUBSET Peer
  BY <1>1, <1>12 DEF IInv, TypeOK, Slot, NoSlots
<1>14. \A h \in Hash, q \in Peer : q \in waitlist'[h] <=> waitslots'[q][h] # NoMeta
  BY <1>1, <1>12 DEF IInv, TypeOK, WaitOK, NoSlots
<1>15. ASSUME NEW h \in Hash, waitlist'[h] # {}
       PROVE  waitTimer' /\ anned[h] = {} /\ fet[h] = NoPeer
  <2>1. waitTimer /\ announced[h] = {} /\ fetching[h] = NoPeer
    BY <1>1, <1>12, <1>15 DEF IInv, WaitOK
  <2>2. h \notin open
    BY <1>4, <2>1, PeerAssumption
  <2> HIDE DEF anned, fet
  <2> QED BY <1>1, <1>7, <2>1, <2>2
<1> HIDE DEF anned, fet
<1> QED BY <1>11, <1>13, <1>14, <1>15, Combine

\* The passing of time.
LEMMA ClockIInv ==
  ASSUME IInv, WaitElapses \/ FetchElapses
  PROVE  IInv'
<1>1. waittime' = [h \in Hash |-> IF waittime[h] = "fresh" THEN "expired" ELSE waittime[h]]
  BY DEF WaitElapses, FetchElapses
<1>2. /\ waitlist' = waitlist /\ waitslots' = waitslots /\ announces' = announces
      /\ announced' = announced /\ fetching' = fetching /\ alternates' = alternates
      /\ waitTimer' = waitTimer /\ timeoutTimer' = timeoutTimer /\ running' = running
      /\ panicked' = panicked /\ removing' = removing
  BY DEF WaitElapses, FetchElapses, fetchVars
<1>3. /\ requests' \in [Peer -> Request \cup {NoRequest}]
      /\ \A p \in Peer : /\ requests'[p].hashes = requests[p].hashes
                         /\ requests'[p].stolen = requests[p].stolen
                         /\ requests'[p].open => requests[p].open
  <2>1. CASE WaitElapses
    BY <2>1 DEF WaitElapses, fetchVars, IInv, TypeOK
  <2>2. CASE FetchElapses
    <3>1. ASSUME NEW r \in Request
          PROVE  LET d == [r EXCEPT !.time = "expired"]
                 IN  d \in Request /\ d.hashes = r.hashes /\ d.stolen = r.stolen
      <4> DEFINE d == [r EXCEPT !.time = "expired"]
      <4>1. r.open = TRUE /\ r.hashes \in SUBSET Hash /\ r.stolen \in SUBSET Hash
        BY <3>1 DEF Request
      <4>2. d = [open |-> r.open, hashes |-> r.hashes, stolen |-> r.stolen, time |-> "expired"]
        BY <3>1 DEF Request
      <4>3. \A hs \in SUBSET Hash, t \in SUBSET Hash :
              [open |-> TRUE, hashes |-> hs, stolen |-> t, time |-> "expired"] \in Request
        BY DEF Request
      <4>4. d \in Request
        BY <4>1, <4>2, <4>3
      <4> QED BY <4>2, <4>4
    <3>2. requests' = [p \in Peer |-> IF requests[p].open THEN [requests[p] EXCEPT !.time = "expired"]
                                                          ELSE requests[p]]
      BY <2>2 DEF FetchElapses
    <3>3. \A p \in Peer : /\ requests[p] \in Request \cup {NoRequest}
                          /\ requests[p].open => requests[p] \in Request
      BY RequestFacts DEF IInv, TypeOK
    <3>4. ASSUME NEW p \in Peer
          PROVE  /\ requests'[p] \in Request \cup {NoRequest}
                 /\ requests'[p].hashes = requests[p].hashes
                 /\ requests'[p].stolen = requests[p].stolen
                 /\ requests'[p].open => requests[p].open
      <4>1. CASE requests[p].open
        <5>1. requests'[p] = [requests[p] EXCEPT !.time = "expired"]
          BY <3>2, <4>1
        <5> QED BY <3>1, <3>3, <4>1, <5>1
      <4>2. CASE ~requests[p].open
        <5>1. requests'[p] = requests[p]
          BY <3>2, <4>2
        <5> QED BY <3>3, <5>1
      <4> QED BY <4>1, <4>2
    <3> QED BY <3>2, <3>4
  <2> QED BY <2>1, <2>2
<1>4. TypeOK'
  BY <1>1, <1>2, <1>3 DEF IInv, TypeOK
<1>5. MapsOK(announces', announced', alternates', fetching', requests', timeoutTimer')
  BY <1>2, <1>3 DEF IInv, MapsOK
<1>6. WaitOK'
  BY <1>2 DEF IInv, WaitOK
<1> QED BY <1>2, <1>4, <1>5, <1>6 DEF IInv

\* Stopping, registering again and stuttering leave all the maps alone.
LEMMA IdleIInv ==
  ASSUME IInv, Stop \/ (\E p \in Peer : Registered(p)) \/ UNCHANGED vars
  PROVE  IInv'
<1>1. /\ waitlist' = waitlist /\ waittime' = waittime /\ waitslots' = waitslots
      /\ announces' = announces /\ announced' = announced /\ fetching' = fetching
      /\ requests' = requests /\ alternates' = alternates
      /\ waitTimer' = waitTimer /\ timeoutTimer' = timeoutTimer /\ panicked' = panicked
      /\ removing' \subseteq removing /\ (running' = running \/ running' = FALSE)
  BY DEF Stop, Registered, vars, waitVars, fetchVars
<1>2. TypeOK'
  BY <1>1 DEF IInv, TypeOK
<1> QED BY <1>1, <1>2 DEF IInv, MapsOK, WaitOK

-----------------------------------------------------------------------------
\* The invariant is inductive: no handler of the loop, run on consistent maps
\* with any announcement, delivery or drop, leaves them inconsistent.
THEOREM Invariance == Spec => []IInv
<1>1. Init => IInv
  BY InitIInv
<1>2. IInv /\ [Next]_vars => IInv'
  <2> SUFFICES ASSUME IInv, [Next]_vars PROVE IInv'
    OBVIOUS
  <2>1. ASSUME NEW p \in Peer, NEW metas \in [Hash -> Slot], LoopNotify(p, metas) PROVE IInv'
    BY <2>1, NotifyIInv
  <2>2. ASSUME NEW p \in Peer, NEW hashes \in SUBSET Hash, NEW direct \in BOOLEAN,
               LoopCleanup(p, hashes, direct)
        PROVE  IInv'
    BY <2>2, CleanupIInv
  <2>3. ASSUME NEW p \in Peer, LoopDrop(p) PROVE IInv'
    BY <2>3, DropIInv
  <2>4. CASE LoopWait
    BY <2>4, WaitIInv
  <2>5. CASE LoopTimeout
    BY <2>5, TimeoutIInv
  <2>6. CASE WaitElapses \/ FetchElapses
    BY <2>6, ClockIInv
  <2>7. CASE Stop \/ (\E p \in Peer : Registered(p)) \/ UNCHANGED vars
    BY <2>7, IdleIInv
  <2> QED BY <2>1, <2>2, <2>3, <2>4, <2>5, <2>6, <2>7 DEF Next
<1> QED BY <1>1, <1>2, PTL DEF Spec

\* Every map and timer of the fetcher keeps its type.
THEOREM TypeCorrect == Spec => []TypeOK
<1>1. IInv => TypeOK
  BY DEF IInv
<1> QED BY <1>1, Invariance, PTL

\* None of the five panics of the loop can be reached.
THEOREM PanicFree == Spec => []NoPanic
<1>1. IInv => NoPanic
  BY DEF IInv, NoPanic
<1> QED BY <1>1, Invariance, PTL

\* A hash is in one stage at a time (tx_fetcher.go:157-163).
THEOREM StagesDisjoint == Spec => []OneStage
<1>1. IInv => OneStage
  BY DEF IInv, OneStage, WaitOK, MapsOK, Waiting, Queued, Fetching
<1> QED BY <1>1, Invariance, PTL

\* Each hash in flight belongs to exactly one open request, and vice versa.
THEOREM FetchesOwned == Spec => []FetchOwned
<1>1. IInv => FetchOwned
  BY DEF IInv, FetchOwned, MapsOK
<1> QED BY <1>1, Invariance, PTL

\* The indices by peer agree with the indices by hash.
THEOREM SlotsAgree == Spec => []SlotsMirrored
<1>1. IInv => SlotsMirrored
  BY DEF IInv, SlotsMirrored, MapsOK, WaitOK
<1> QED BY <1>1, Invariance, PTL

\* All the maps of the loop agree.
THEOREM MapsStayAgreed == Spec => []MapsAgree
<1>1. OneStage /\ FetchOwned /\ SlotsMirrored => MapsAgree
  BY DEF MapsAgree
<1> QED BY <1>1, StagesDisjoint, FetchesOwned, SlotsAgree, PTL

\* The flags that decide about the timers never leave one off that is needed.
THEOREM TimersStayArmed == Spec => []TimersArmed
<1>1. IInv => TimersArmed
  BY DEF IInv, TimersArmed, MapsOK, WaitOK, Waiting
<1> QED BY <1>1, Invariance, PTL

-----------------------------------------------------------------------------
(* Metadata of waiting hashes *)

\* scheduleFetches and its absence leave announces as the handler made it.
LEMMA AnnouncesGiven ==
  ASSUME NEW ann, NEW anned, NEW alt, NEW fet, NEW req, NEW panic, NEW actives, NEW timer,
         \/ KeepFetches(ann, anned, alt, fet, req, panic)
         \/ ScheduleFetches(actives, ann, anned, alt, fet, req, timer, panic)
  PROVE  announces' = ann
BY DEF KeepFetches, ScheduleFetches

\* A peer does not announce a hash in the queue or in flight while it does in the
\* waiting list, and nobody downloads the hash.
LEMMA WaitingOnly ==
  ASSUME IInv, NEW h \in Hash, NEW p \in Peer, waitslots[p][h] # NoMeta
  PROVE  /\ p \in waitlist[h] /\ announced[h] = {} /\ alternates[h] = {}
         /\ announces[p][h] = NoMeta /\ ~Downloading(h)
<1>1. p \in waitlist[h] /\ announced[h] = {} /\ fetching[h] = NoPeer
  BY DEF IInv, WaitOK
<1>2. alternates[h] = {}
  BY <1>1 DEF IInv, MapsOK
<1> QED BY <1>1, <1>2 DEF IInv, MapsOK, Downloading

\* A delivery clears announcements: of the delivered hashes for everyone and, of
\* the deliverer, of those it skipped.
LEMMA CleanupAnnounces ==
  ASSUME NEW p \in Peer, NEW hashes \in SUBSET Hash, NEW direct \in BOOLEAN,
         LoopCleanup(p, hashes, direct)
  PROVE  \A q \in Peer, h \in Hash : /\ waitslots'[q][h] \in {waitslots[q][h], NoMeta}
                                     /\ announces'[q][h] \in {announces[q][h], NoMeta}
<1> DEFINE Clear(f, S, none) == [h \in Hash |-> IF h \in S THEN none ELSE f[h]]
           wait   == hashes \cap Waiting
           rest   == hashes \ wait
           ann    == [r \in Peer |-> Clear(announces[r], rest, NoMeta)]
           anned  == Clear(announced, rest, {})
           alt    == Clear(alternates, rest, {})
           fet    == Clear(fetching, rest, NoPeer)
           Stolen(r) == {h \in rest : fetching[h] = r /\ IsStolen(h, p, direct)}
           req    == [r \in Peer |-> [requests[r] EXCEPT !.stolen = @ \cup Stolen(r)]]
           panic  == panicked \/ \E r \in Peer : Stolen(r) # {} /\ ~requests[r].open
           missing == Undelivered(req[p]) \ hashes
           ann2(skip) == [ann EXCEPT ![p] = Clear(ann[p], skip, NoMeta)]
           req2   == [req EXCEPT ![p] = NoRequest]
<1>1. waitslots' = [r \in Peer |-> Clear(waitslots[r], wait, NoMeta)]
  BY DEF LoopCleanup
<1>2. \/ KeepFetches(ann, anned, alt, fet, req, panic)
      \/ \E skip \in Skipped(req[p], missing, hashes) : \E anned2, alt2, fet2, panic2 :
           ScheduleFetches(Announcers(ann2(skip)), ann2(skip), anned2, alt2, fet2, req2, timeoutTimer, panic2)
  BY DEF LoopCleanup
<1>3. announces' = ann \/ \E skip : announces' = ann2(skip)
  <2> HIDE DEF ann, anned, alt, fet, req, req2, panic, ann2, missing
  <2> QED BY <1>2, AnnouncesGiven
<1>4. ASSUME NEW q \in Peer, NEW h \in Hash
      PROVE  ann[q][h] \in {announces[q][h], NoMeta}
  OBVIOUS
<1>5. ASSUME NEW q \in Peer, NEW h \in Hash, NEW skip
      PROVE  ann2(skip)[q][h] \in {ann[q][h], NoMeta}
  <2>1. CASE q = p
    <3>1. ann2(skip)[q] = Clear(ann[p], skip, NoMeta)
      BY <2>1
    <3> HIDE DEF ann2, ann
    <3> QED BY <2>1, <3>1
  <2>2. CASE q # p
    BY <2>2
  <2> QED BY <2>1, <2>2
<1> SUFFICES ASSUME NEW q \in Peer, NEW h \in Hash
             PROVE  /\ waitslots'[q][h] \in {waitslots[q][h], NoMeta}
                    /\ announces'[q][h] \in {announces[q][h], NoMeta}
  OBVIOUS
<1>6. waitslots'[q][h] \in {waitslots[q][h], NoMeta}
  BY <1>1
<1>7. announces'[q][h] \in {announces[q][h], NoMeta}
  <2> HIDE DEF ann, ann2
  <2> QED BY <1>3, <1>4, <1>5
<1> QED BY <1>6, <1>7

\* The metadata a step may give a waiting hash of a peer.
Judged(h, p) ==
  /\ waitslots'[p][h] \in {waitslots[p][h], NoMeta}
  /\ announces'[p][h] # announces[p][h] => announces'[p][h] = waitslots[p][h]

\* Every event of the loop leaves a waiting peer and hash judged.
LEMMA JudgedStep ==
  ASSUME IInv, [Next]_vars, NEW h \in Hash, NEW p \in Peer, waitslots[p][h] # NoMeta
  PROVE  Judged(h, p)
<1>0. /\ p \in waitlist[h] /\ announces[p][h] = NoMeta /\ ~Downloading(h)
      /\ waitslots \in [Peer -> [Hash -> Slot]] /\ announces \in [Peer -> [Hash -> Slot]]
  BY WaitingOnly DEF IInv, TypeOK
<1>1. ASSUME NEW q \in Peer, NEW metas \in [Hash -> Slot], LoopNotify(q, metas)
      PROVE  Judged(h, p)
  <2>1. PICK take \in Accepted(Held(metas), Used(q)) :
          LET late == {g \in take : Downloading(g)}
              ann  == [announces EXCEPT ![q] =
                         [g \in Hash |-> IF g \in late THEN metas[g] ELSE announces[q][g]]]
          IN /\ waitslots' = [waitslots EXCEPT ![q] =
                                [g \in Hash |-> IF g \in take \ late /\ FirstAnnounce(g, q)
                                                  THEN metas[g] ELSE waitslots[q][g]]]
             /\ announces' = ann
    BY <1>1, AnnouncesGiven DEF LoopNotify
  <2>2. waitslots'[p][h] = waitslots[p][h]
    BY <1>0, <2>1 DEF FirstAnnounce
  <2>3. announces'[p][h] = announces[p][h]
    BY <1>0, <2>1
  <2> QED BY <2>2, <2>3 DEF Judged
<1>2. CASE LoopWait
  <2> DEFINE exp == {g \in Waiting : waittime[g] = "expired"}
  <2>1. /\ waitslots' = [q \in Peer |-> [g \in Hash |-> IF g \in exp /\ q \in waitlist[g]
                                                          THEN NoMeta ELSE waitslots[q][g]]]
        /\ announces' = [q \in Peer |-> [g \in Hash |-> IF g \in exp /\ q \in waitlist[g]
                                                          THEN waitslots[q][g] ELSE announces[q][g]]]
    BY <1>2, AnnouncesGiven DEF LoopWait
  <2> HIDE DEF exp
  <2> QED BY <2>1 DEF Judged
<1>3. ASSUME waitslots'[p][h] \in {waitslots[p][h], NoMeta},
             announces'[p][h] \in {announces[p][h], NoMeta}
      PROVE  Judged(h, p)
  BY <1>0, <1>3 DEF Judged
<1>4. CASE LoopTimeout
  <2> DEFINE late    == {q \in Peer : requests[q].open /\ requests[q].time = "expired"}
             Back(q) == IF q \in late THEN Undelivered(requests[q]) ELSE {}
  <2>1. /\ announces' = [q \in Peer |-> [g \in Hash |-> IF g \in Back(q) THEN NoMeta ELSE announces[q][g]]]
        /\ waitslots' = waitslots
    BY <1>4, AnnouncesGiven DEF LoopTimeout, waitVars
  <2> HIDE DEF Back
  <2> QED BY <1>3, <2>1
<1>5. ASSUME NEW q \in Peer, NEW hashes \in SUBSET Hash, NEW direct \in BOOLEAN, LoopCleanup(q, hashes, direct)
      PROVE  Judged(h, p)
  BY <1>3, <1>5, CleanupAnnounces
<1>6. ASSUME NEW q \in Peer, LoopDrop(q) PROVE Judged(h, p)
  <2>1. waitslots' = [waitslots EXCEPT ![q] = NoSlots] /\ announces' = [announces EXCEPT ![q] = NoSlots]
    BY <1>6 DEF LoopDrop, KeepFetches, ScheduleFetches
  <2> QED BY <1>0, <1>3, <2>1 DEF NoSlots
<1>7. ASSUME waitslots' = waitslots, announces' = announces PROVE Judged(h, p)
  BY <1>3, <1>7
<1>8. CASE WaitElapses \/ FetchElapses \/ Stop \/ (\E q \in Peer : Registered(q)) \/ UNCHANGED vars
  BY <1>7, <1>8 DEF WaitElapses, FetchElapses, Stop, Registered, vars, waitVars, fetchVars
<1> QED BY <1>1, <1>2, <1>4, <1>5, <1>6, <1>8 DEF Next

\* The metadata a peer gave first for a waiting hash is what it is judged by,
\* whatever it or others announce, deliver or drop (tx_fetcher.go:466-471).
THEOREM FirstMetaKept == Spec => MetaKept
<1>1. IInv /\ [Next]_vars =>
        [\A h \in Hash, p \in Peer : waitslots[p][h] # NoMeta =>
           /\ waitslots'[p][h] \in {waitslots[p][h], NoMeta}
           /\ announces'[p][h] # announces[p][h] => announces'[p][h] = waitslots[p][h]]_vars
  BY JudgedStep DEF Judged
<1> QED BY <1>1, Invariance, PTL DEF Spec, MetaKept

-----------------------------------------------------------------------------
(* The fetcher with its callers *)

\* Nothing is charged to the peer.
Forgotten(p) == waitslots[p] = NoSlots /\ announces[p] = NoSlots /\ ~requests[p].open

\* Calls are made by registered peers only, and carry what their operation takes.
CallsOK ==
  /\ registered \in SUBSET Peer
  /\ call \in [Peer -> Call]
  /\ \A p \in Peer : p \notin registered => call[p] = NoCall

\* The peer left the peer set or is about to.
Gone(p) == p \notin registered \/ call[p].op = "unregister"

\* The inductive invariant behind GoneForgotten.
Leaving == running => \A p \in Peer : Gone(p) => Forgotten(p)

-----------------------------------------------------------------------------
\* A call carries the arguments of its operation.
LEMMA CallFacts ==
  ASSUME NEW c \in Call
  PROVE  /\ c.op = "notify" => c.metas \in [Hash -> Slot]
         /\ c.op = "enqueue" => c.hashes \in SUBSET Hash /\ c.direct \in BOOLEAN
<1>1. CASE c \in [op : {"none", "drop", "unregister"}]
  BY <1>1
<1>2. CASE c \in [op : {"notify"}, metas : [Hash -> Slot]]
  BY <1>2
<1>3. CASE c \in [op : {"enqueue"}, hashes : SUBSET Hash, direct : BOOLEAN]
  BY <1>3
<1> QED BY <1>1, <1>2, <1>3 DEF Call

\* scheduleFetches asks nothing of a peer that announces nothing.
LEMMA ScheduleForgets ==
  ASSUME NEW actives, NEW ann, NEW anned, NEW alt, NEW fet, NEW req, NEW timer, NEW panic,
         actives \subseteq Peer, NEW p \in Peer, ann[p] = NoSlots, ~req[p].open,
         ScheduleFetches(actives, ann, anned, alt, fet, req, timer, panic)
  PROVE  announces'[p] = NoSlots /\ ~requests'[p].open
<1>1. PICK alloc \in Allocations(actives, ann, fet, req) :
        /\ announces' = ann
        /\ requests' = [q \in Peer |-> IF alloc[q] # {} THEN NewRequest(alloc[q]) ELSE req[q]]
  BY DEF ScheduleFetches
<1>2. alloc \in [Peer -> SUBSET Hash] /\ \A h \in alloc[p] : ann[p][h] # NoMeta
  BY AllocationFacts
<1>3. alloc[p] = {}
  BY <1>2 DEF NoSlots
<1> QED BY <1>1, <1>3

\* An announcement of another peer leaves a forgotten peer forgotten.
LEMMA NotifyForgets ==
  ASSUME TypeOK, NEW p \in Peer, NEW metas \in [Hash -> Slot], LoopNotify(p, metas),
         NEW q \in Peer, q # p, Forgotten(q)
  PROVE  Forgotten(q)'
<1>1. PICK take \in Accepted(Held(metas), Used(p)) :
       LET late  == {h \in take : Downloading(h)}
           wait  == take \ late
           ann   == [announces EXCEPT ![p] =
                       [h \in Hash |-> IF h \in late THEN metas[h] ELSE announces[p][h]]]
           alt   == [h \in Hash |-> IF h \in late /\ alternates[h] # {}
                                      THEN alternates[h] \cup {p} ELSE alternates[h]]
           anned == [h \in Hash |-> IF h \in late /\ alternates[h] = {}
                                      THEN announced[h] \cup {p} ELSE announced[h]]
       IN /\ waitslots' = [waitslots EXCEPT ![p] =
                             [h \in Hash |-> IF h \in wait /\ FirstAnnounce(h, p)
                                               THEN metas[h] ELSE waitslots[p][h]]]
          /\ IF Held(announces[p]) = {} /\ Held(ann[p]) # {}
               THEN ScheduleFetches({p}, ann, anned, alt, fetching, requests, timeoutTimer, panicked)
               ELSE KeepFetches(ann, anned, alt, fetching, requests, panicked)
  BY DEF LoopNotify
<1> DEFINE late  == {h \in take : Downloading(h)}
           ann   == [announces EXCEPT ![p] =
                       [h \in Hash |-> IF h \in late THEN metas[h] ELSE announces[p][h]]]
           alt   == [h \in Hash |-> IF h \in late /\ alternates[h] # {}
                                      THEN alternates[h] \cup {p} ELSE alternates[h]]
           anned == [h \in Hash |-> IF h \in late /\ alternates[h] = {}
                                      THEN announced[h] \cup {p} ELSE announced[h]]
<1>2. waitslots'[q] = NoSlots
  BY <1>1 DEF Forgotten, TypeOK
<1>3. ann[q] = NoSlots /\ ~requests[q].open
  BY DEF Forgotten, TypeOK
<1>4. \/ ScheduleFetches({p}, ann, anned, alt, fetching, requests, timeoutTimer, panicked)
      \/ KeepFetches(ann, anned, alt, fetching, requests, panicked)
  BY <1>1
<1> HIDE DEF ann, alt, anned
<1>5. announces'[q] = NoSlots /\ ~requests'[q].open
  BY <1>3, <1>4, ScheduleForgets DEF KeepFetches
<1> QED BY <1>2, <1>5 DEF Forgotten

\* So do the timers: what they move was announced, what they end was requested.
LEMMA WaitForgets ==
  ASSUME IInv, LoopWait, NEW q \in Peer, Forgotten(q)
  PROVE  Forgotten(q)'
<1> DEFINE exp     == {h \in Waiting : waittime[h] = "expired"}
           anned   == [h \in Hash |-> IF h \in exp THEN waitlist[h] ELSE announced[h]]
           actives == UNION {waitlist[h] : h \in exp}
           ann     == [p \in Peer |-> [h \in Hash |-> IF h \in exp /\ p \in waitlist[h]
                                                       THEN waitslots[p][h] ELSE announces[p][h]]]
           panic   == panicked \/ \E h \in exp : announced[h] # {}
<1>1. /\ waitslots' = [p \in Peer |-> [h \in Hash |-> IF h \in exp /\ p \in waitlist[h]
                                                        THEN NoMeta ELSE waitslots[p][h]]]
      /\ \/ ScheduleFetches(actives, ann, anned, alternates, fetching, requests, timeoutTimer, panic)
         \/ KeepFetches(ann, anned, alternates, fetching, requests, panic)
  BY DEF LoopWait
<1>2. \A h \in Hash : q \notin waitlist[h]
  BY DEF IInv, WaitOK, Forgotten, NoSlots
<1>3. waitslots'[q] = NoSlots
  BY <1>1, <1>2 DEF Forgotten, NoSlots
<1>4. ann[q] = NoSlots /\ ~requests[q].open
  BY <1>2 DEF Forgotten, NoSlots
<1>5. actives \subseteq Peer
  BY DEF IInv, TypeOK, Waiting
<1> HIDE DEF ann, anned, actives, panic
<1>6. announces'[q] = NoSlots /\ ~requests'[q].open
  BY <1>1, <1>4, <1>5, ScheduleForgets DEF KeepFetches
<1> QED BY <1>3, <1>6 DEF Forgotten

\* The same for the request timer.
LEMMA TimeoutForgets ==
  ASSUME IInv, LoopTimeout, NEW q \in Peer, Forgotten(q)
  PROVE  Forgotten(q)'
<1> DEFINE late    == {p \in Peer : requests[p].open /\ requests[p].time = "expired"}
           Back(p) == IF p \in late THEN Undelivered(requests[p]) ELSE {}
           back    == UNION {Back(p) : p \in late}
           anned   == [h \in Hash |-> IF h \in back
                         THEN OtherOrigins(h, CHOOSE p \in late : h \in Back(p)) ELSE announced[h]]
           ann     == [p \in Peer |-> [h \in Hash |-> IF h \in Back(p) THEN NoMeta ELSE announces[p][h]]]
           alt     == [h \in Hash |-> IF h \in back THEN {} ELSE alternates[h]]
           fet     == [h \in Hash |-> IF h \in back THEN NoPeer ELSE fetching[h]]
           req     == [p \in Peer |-> IF p \in late THEN Dangling(requests[p]) ELSE requests[p]]
           panic   == panicked \/ \E h \in back : announced[h] # {}
<1>1. waitslots' = waitslots /\ ScheduleFetches(Announcers(ann), ann, anned, alt, fet, req, TRUE, panic)
  BY DEF LoopTimeout, waitVars
<1>2. q \notin late
  BY DEF Forgotten
<1>3. ann[q] = NoSlots
  BY <1>2 DEF Forgotten, NoSlots
<1>4. ~req[q].open
  BY <1>2 DEF Forgotten
<1>5. Announcers(ann) \subseteq Peer
  BY DEF Announcers
<1> HIDE DEF ann, anned, alt, fet, req, panic
<1>6. announces'[q] = NoSlots /\ ~requests'[q].open
  BY <1>1, <1>3, <1>4, <1>5, ScheduleForgets
<1> QED BY <1>1, <1>6 DEF Forgotten

\* A delivery takes announcements away and gives none.
LEMMA CleanupForgets ==
  ASSUME IInv, NEW p \in Peer, NEW hashes \in SUBSET Hash, NEW direct \in BOOLEAN,
         LoopCleanup(p, hashes, direct), NEW q \in Peer, Forgotten(q)
  PROVE  Forgotten(q)'
<1> DEFINE Clear(f, S, none) == [h \in Hash |-> IF h \in S THEN none ELSE f[h]]
           wait   == hashes \cap Waiting
           rest   == hashes \ wait
           ann    == [r \in Peer |-> Clear(announces[r], rest, NoMeta)]
           anned  == Clear(announced, rest, {})
           alt    == Clear(alternates, rest, {})
           fet    == Clear(fetching, rest, NoPeer)
           Stolen(r) == {h \in rest : fetching[h] = r /\ IsStolen(h, p, direct)}
           req    == [r \in Peer |-> [requests[r] EXCEPT !.stolen = @ \cup Stolen(r)]]
           panic  == panicked \/ \E r \in Peer : Stolen(r) # {} /\ ~requests[r].open
           open    == Undelivered(req[p])
           missing == open \ hashes
           ann2(skip) == [ann EXCEPT ![p] = Clear(ann[p], skip, NoMeta)]
           req2   == [req EXCEPT ![p] = NoRequest]
<1>1. waitslots' = [r \in Peer |-> Clear(waitslots[r], wait, NoMeta)]
  BY DEF LoopCleanup
<1>2. \/ KeepFetches(ann, anned, alt, fet, req, panic)
      \/ \E skip \in Skipped(req[p], missing, hashes) : \E anned2, alt2, fet2, panic2 :
           ScheduleFetches(Announcers(ann2(skip)), ann2(skip), anned2, alt2, fet2, req2, timeoutTimer, panic2)
  BY DEF LoopCleanup
<1>3. waitslots'[q] = NoSlots
  BY <1>1 DEF Forgotten, NoSlots
<1>4. ann[q] = NoSlots
  BY DEF Forgotten, NoSlots
<1>5. ~req[q].open
  <2>1. requests[q] \in Request \cup {NoRequest} /\ ~requests[q].open
    BY DEF IInv, TypeOK, Forgotten
  <2>2. requests[q] = NoRequest
    BY <2>1, RequestFacts
  <2> QED BY <2>2 DEF NoRequest
<1>6. ~req2[q].open
  <2>1. CASE q = p
    BY <2>1 DEF NoRequest
  <2>2. CASE q # p
    BY <1>5, <2>2
  <2> QED BY <2>1, <2>2
<1>7. ASSUME NEW skip PROVE ann2(skip)[q] = NoSlots
  BY <1>4 DEF NoSlots
<1>8. ASSUME NEW a PROVE Announcers(a) \subseteq Peer
  BY DEF Announcers
<1> HIDE DEF ann, anned, alt, fet, req, req2, panic, ann2, missing
<1>9. announces'[q] = NoSlots /\ ~requests'[q].open
  <2>1. CASE KeepFetches(ann, anned, alt, fet, req, panic)
    BY <1>4, <1>5, <2>1 DEF KeepFetches
  <2>2. CASE \E skip \in Skipped(req[p], missing, hashes) : \E anned2, alt2, fet2, panic2 :
               ScheduleFetches(Announcers(ann2(skip)), ann2(skip), anned2, alt2, fet2, req2, timeoutTimer, panic2)
    BY <1>6, <1>7, <1>8, <2>2, ScheduleForgets
  <2> QED BY <1>2, <2>1, <2>2
<1> QED BY <1>3, <1>9 DEF Forgotten

\* A dropped peer is forgotten, and so is one that was.
LEMMA DropForgets ==
  ASSUME IInv, NEW p \in Peer, LoopDrop(p), NEW q \in Peer, q = p \/ Forgotten(q)
  PROVE  Forgotten(q)'
<1> DEFINE ann == [announces EXCEPT ![p] = NoSlots]
           req == [requests EXCEPT ![p] = NoRequest]
<1>1. waitslots' = [waitslots EXCEPT ![p] = NoSlots]
  BY DEF LoopDrop
<1>2. \/ /\ ~requests[p].open
         /\ \E anned, alt, fet, panic : KeepFetches(ann, anned, alt, fet, requests, panic)
      \/ \E anned, alt, fet, panic :
           ScheduleFetches(Announcers(ann), ann, anned, alt, fet, req, TRUE, panic)
  <2>1. CASE requests[p].open
    BY <2>1 DEF LoopDrop
  <2>2. CASE ~requests[p].open
    BY <2>2 DEF LoopDrop
  <2> QED BY <2>1, <2>2
<1>3. waitslots'[q] = NoSlots
  BY <1>1 DEF IInv, TypeOK, Forgotten
<1>4. ann[q] = NoSlots
  BY DEF IInv, TypeOK, Forgotten
<1>5. ~req[q].open
  <2>1. CASE q = p
    BY <2>1 DEF IInv, TypeOK, NoRequest
  <2>2. CASE q # p
    BY <2>2 DEF IInv, TypeOK, Forgotten
  <2> QED BY <2>1, <2>2
<1>6. ~requests[p].open => ~requests[q].open
  BY DEF Forgotten
<1>7. Announcers(ann) \subseteq Peer
  BY DEF Announcers
<1> HIDE DEF ann, req
<1>8. announces'[q] = NoSlots /\ ~requests'[q].open
  <2>1. CASE ~requests[p].open /\ \E anned, alt, fet, panic : KeepFetches(ann, anned, alt, fet, requests, panic)
    BY <1>4, <1>6, <2>1 DEF KeepFetches
  <2>2. CASE \E anned, alt, fet, panic :
               ScheduleFetches(Announcers(ann), ann, anned, alt, fet, req, TRUE, panic)
    BY <1>4, <1>5, <1>7, <2>2, ScheduleForgets
  <2> QED BY <1>2, <2>1, <2>2
<1> QED BY <1>3, <1>8 DEF Forgotten

-----------------------------------------------------------------------------
\* Every step of the node is a step of the fetcher, or changes nothing of it.
LEMMA NodeStep ==
  ASSUME call \in [Peer -> Call], [NodeNext]_nodeVars
  PROVE  [Next]_vars
<1>1. ASSUME NEW p \in Peer, TakeNotify(p) PROVE [Next]_vars
  <2>1. call[p].metas \in [Hash -> Slot]
    BY <1>1, CallFacts DEF TakeNotify
  <2>2. LoopNotify(p, call[p].metas) \/ UNCHANGED vars
    BY <1>1 DEF TakeNotify
  <2> QED BY <2>1, <2>2 DEF Next
<1>2. ASSUME NEW p \in Peer, TakeCleanup(p) PROVE [Next]_vars
  <2>1. call[p].hashes \in SUBSET Hash /\ call[p].direct \in BOOLEAN
    BY <1>2, CallFacts DEF TakeCleanup
  <2>2. LoopCleanup(p, call[p].hashes, call[p].direct)
    BY <1>2 DEF TakeCleanup
  <2> QED BY <2>1, <2>2 DEF Next
<1>3. ASSUME NEW p \in Peer, TakeDrop(p) \/ TakeFailed(p) PROVE [Next]_vars
  BY <1>3 DEF TakeDrop, TakeFailed, Next
<1>4. ASSUME NEW p \in Peer, Register(p) PROVE [Next]_vars
  <2>1. CASE p \in removing
    BY <1>4, <2>1 DEF Register, Registered, Next
  <2>2. CASE p \notin removing
    <3>1. removing' = removing
      BY <1>4, <2>2 DEF Register
    <3> QED BY <1>4, <3>1 DEF Register, vars
  <2> QED BY <2>1, <2>2
<1>5. ASSUME NEW p \in Peer,
             \/ Leave(p) \/ Unregister(p) \/ Terminated(p) \/ Send(p) \/ FailedReturns(p)
             \/ \E metas \in [Hash -> Slot] : Notify(p, metas)
             \/ \E hashes \in SUBSET Hash, direct \in BOOLEAN : Enqueue(p, hashes, direct)
      PROVE  UNCHANGED vars
  BY <1>5 DEF Leave, Unregister, Terminated, Send, FailedReturns, Notify, Enqueue
<1>6. ASSUME TakeTimer PROVE [Next]_vars
  BY <1>6 DEF TakeTimer, Next
<1>7. ASSUME Environment PROVE [Next]_vars
  BY <1>7 DEF Environment, Next
<1>8. ASSUME UNCHANGED nodeVars PROVE UNCHANGED vars
  BY <1>8 DEF nodeVars
<1> QED BY <1>1, <1>2, <1>3, <1>4, <1>5, <1>6, <1>7, <1>8 DEF NodeNext, PeerNext

\* The handlers keep to their calls.
LEMMA CallsStep ==
  ASSUME CallsOK, [NodeNext]_nodeVars
  PROVE  CallsOK'
<1> USE DEF CallsOK, CallOf
<1>1. ASSUME NEW op \in {"none", "drop", "unregister"} PROVE [op |-> op] \in Call
  BY DEF Call
<1>2. ASSUME NEW p \in Peer, Register(p) PROVE CallsOK'
  BY <1>2 DEF Register
<1>3. ASSUME NEW p \in Peer, NEW metas \in [Hash -> Slot], Notify(p, metas) PROVE CallsOK'
  <2> DEFINE unknown == [h \in Hash |-> IF h \in pool \cup underpriced THEN NoMeta ELSE metas[h]]
  <2>1. unknown \in [Hash -> Slot]
    BY DEF Slot
  <2>2. call' = [call EXCEPT ![p] = [op |-> "notify", metas |-> unknown]]
    BY <1>3 DEF Notify
  <2> HIDE DEF unknown
  <2>3. [op |-> "notify", metas |-> unknown] \in Call
    BY <2>1 DEF Call
  <2>4. p \in registered /\ registered' = registered
    BY <1>3 DEF Notify, Free
  <2> QED BY <2>2, <2>3, <2>4
<1>4. ASSUME NEW p \in Peer, NEW hashes \in SUBSET Hash, NEW direct \in BOOLEAN, Enqueue(p, hashes, direct)
      PROVE  CallsOK'
  <2>1. call' = [call EXCEPT ![p] = [op |-> "enqueue", hashes |-> hashes, direct |-> direct]]
    BY <1>4 DEF Enqueue
  <2>2. [op |-> "enqueue", hashes |-> hashes, direct |-> direct] \in Call
    BY DEF Call
  <2>3. p \in registered /\ registered' = registered
    BY <1>4 DEF Enqueue, Free
  <2> QED BY <2>1, <2>2, <2>3
<1>5. ASSUME NEW p \in Peer, Leave(p) PROVE CallsOK'
  BY <1>1, <1>5 DEF Leave, Free
<1>6. ASSUME NEW p \in Peer, Unregister(p) PROVE CallsOK'
  BY <1>1, <1>6 DEF Unregister, NoCall
<1>7. ASSUME NEW p \in Peer, Terminated(p) PROVE CallsOK'
  BY <1>1, <1>7 DEF Terminated, NoCall
<1>8. ASSUME NEW p \in Peer, TakeNotify(p) \/ TakeCleanup(p) \/ TakeDrop(p) PROVE CallsOK'
  BY <1>1, <1>8 DEF TakeNotify, TakeCleanup, TakeDrop, NoCall
<1>9. ASSUME UNCHANGED <<registered, call>> PROVE CallsOK'
  BY <1>9
<1>10. ASSUME NEW p \in Peer, Send(p) \/ FailedReturns(p) \/ TakeFailed(p) PROVE UNCHANGED <<registered, call>>
  BY <1>10 DEF Send, FailedReturns, TakeFailed
<1>11. ASSUME TakeTimer \/ Environment \/ UNCHANGED nodeVars PROVE UNCHANGED <<registered, call>>
  BY <1>11 DEF TakeTimer, Environment, nodeVars, callVars
<1> QED BY <1>2, <1>3, <1>4, <1>5, <1>6, <1>7, <1>8, <1>9, <1>10, <1>11 DEF NodeNext, PeerNext

\* Drop comes before the peer leaves the set, and nothing is announced after it.
LEMMA LeavingStep ==
  ASSUME IInv, CallsOK, Leaving, [NodeNext]_nodeVars
  PROVE  Leaving'
<1> SUFFICES ASSUME running', NEW q \in Peer, Gone(q)' PROVE Forgotten(q)'
  BY DEF Leaving
<1>1. ASSUME Forgotten(q), UNCHANGED <<waitVars, fetchVars>> PROVE Forgotten(q)'
  BY <1>1 DEF Forgotten, waitVars, fetchVars
<1>2. ASSUME running, Gone(q) PROVE Forgotten(q)
  BY <1>2 DEF Leaving
<1> USE DEF CallsOK, CallOf
<1>3. ASSUME NEW p \in Peer, Register(p) PROVE Forgotten(q)'
  <2>1. running /\ Gone(q) /\ UNCHANGED <<waitVars, fetchVars>>
    BY <1>3 DEF Register, Gone
  <2> QED BY <1>1, <1>2, <2>1
<1>4. ASSUME NEW p \in Peer,
             \/ \E metas \in [Hash -> Slot] : Notify(p, metas)
             \/ \E hashes \in SUBSET Hash, direct \in BOOLEAN : Enqueue(p, hashes, direct)
             \/ Leave(p) \/ Unregister(p) \/ Send(p) \/ FailedReturns(p) \/ Terminated(p)
      PROVE  Forgotten(q)'
  <2>1. UNCHANGED vars
    BY <1>4 DEF Notify, Enqueue, Leave, Unregister, Send, FailedReturns, Terminated
  <2>2. running /\ UNCHANGED <<waitVars, fetchVars>>
    BY <2>1 DEF vars
  <2>3. Gone(q)
    <3>1. CASE \/ \E metas \in [Hash -> Slot] : Notify(p, metas)
               \/ \E hashes \in SUBSET Hash, direct \in BOOLEAN : Enqueue(p, hashes, direct)
               \/ Leave(p)
      BY <3>1 DEF Notify, Enqueue, Leave, Free, Gone
    <3>2. CASE Unregister(p)
      BY <3>2 DEF Unregister, Gone, NoCall
    <3>3. CASE Send(p) \/ FailedReturns(p)
      BY <3>3 DEF Send, FailedReturns, Gone
    <3>4. CASE Terminated(p)
      BY <2>2, <3>4 DEF Terminated
    <3> QED BY <1>4, <3>1, <3>2, <3>3, <3>4
  <2> QED BY <1>1, <1>2, <2>2, <2>3
<1>5. ASSUME NEW p \in Peer, TakeNotify(p) PROVE Forgotten(q)'
  <2>1. q # p /\ Gone(q)
    BY <1>5 DEF TakeNotify, Gone, NoCall
  <2>2. call[p].metas \in [Hash -> Slot]
    BY <1>5, CallFacts DEF TakeNotify
  <2>3. running
    BY <1>5 DEF TakeNotify
  <2>4. CASE LoopNotify(p, call[p].metas)
    BY <1>2, <2>1, <2>2, <2>3, <2>4, NotifyForgets DEF IInv
  <2>5. CASE UNCHANGED vars
    BY <1>1, <1>2, <2>1, <2>3, <2>5 DEF vars
  <2> QED BY <1>5, <2>4, <2>5 DEF TakeNotify
<1>6. ASSUME NEW p \in Peer, TakeCleanup(p) PROVE Forgotten(q)'
  <2>1. Gone(q) /\ LoopCleanup(p, call[p].hashes, call[p].direct)
    BY <1>6 DEF TakeCleanup, Gone, NoCall
  <2>2. call[p].hashes \in SUBSET Hash /\ call[p].direct \in BOOLEAN
    BY <1>6, CallFacts DEF TakeCleanup
  <2>3. running
    BY <2>1 DEF LoopCleanup
  <2> QED BY <1>2, <2>1, <2>2, <2>3, CleanupForgets
<1>7. ASSUME NEW p \in Peer, TakeDrop(p) PROVE Forgotten(q)'
  <2>1. LoopDrop(p) /\ (q = p \/ Gone(q))
    BY <1>7 DEF TakeDrop, Gone
  <2>2. running
    BY <2>1 DEF LoopDrop
  <2> QED BY <1>2, <2>1, <2>2, DropForgets
<1>8. ASSUME NEW p \in Peer, TakeFailed(p) PROVE Forgotten(q)'
  <2>1. LoopDrop(p) /\ Gone(q)
    BY <1>8 DEF TakeFailed, Gone
  <2>2. running
    BY <2>1 DEF LoopDrop
  <2> QED BY <1>2, <2>1, <2>2, DropForgets
<1>9. ASSUME TakeTimer PROVE Forgotten(q)'
  <2>1. Gone(q)
    BY <1>9 DEF TakeTimer, Gone
  <2>2. CASE LoopWait
    BY <1>2, <2>1, <2>2, WaitForgets DEF LoopWait
  <2>3. CASE LoopTimeout
    BY <1>2, <2>1, <2>3, TimeoutForgets DEF LoopTimeout
  <2> QED BY <1>9, <2>2, <2>3 DEF TakeTimer
<1>10. ASSUME Environment \/ UNCHANGED nodeVars PROVE Forgotten(q)'
  <2>1. UNCHANGED <<registered, call>>
    BY <1>10 DEF Environment, nodeVars, callVars
  <2>2. Gone(q)
    BY <2>1 DEF Gone
  <2>3. CASE WaitElapses \/ FetchElapses
    <3>1. running /\ waitslots' = waitslots /\ announces' = announces
      BY <2>3 DEF WaitElapses, FetchElapses, fetchVars
    <3>2. Forgotten(q)
      BY <1>2, <2>2, <3>1
    <3>3. requests'[q] = requests[q]
      <4>1. CASE WaitElapses
        BY <4>1 DEF WaitElapses, fetchVars
      <4>2. CASE FetchElapses
        BY <4>2, <3>2 DEF FetchElapses, Forgotten
      <4> QED BY <2>3, <4>1, <4>2
    <3> QED BY <3>1, <3>2, <3>3 DEF Forgotten
  <2>4. CASE Stop
    BY <2>4 DEF Stop
  <2>5. CASE UNCHANGED vars
    BY <1>1, <1>2, <2>2, <2>5 DEF vars
  <2> QED BY <1>10, <2>3, <2>4, <2>5 DEF Environment, nodeVars
<1> QED BY <1>3, <1>4, <1>5, <1>6, <1>7, <1>8, <1>9, <1>10 DEF NodeNext, PeerNext

-----------------------------------------------------------------------------
\* The handlers make calls in the order the fetcher's contract expects.
LEMMA CallsInvariance == NodeSpec => []CallsOK
<1>1. NodeInit => CallsOK
  BY DEF NodeInit, CallsOK, Call, NoCall
<1>2. CallsOK /\ [NodeNext]_nodeVars => CallsOK'
  BY CallsStep
<1> QED BY <1>1, <1>2, PTL DEF NodeSpec

\* With its concurrent callers the fetcher refines the fetcher under arbitrary
\* calls: the fetcher alone has every behaviour it has in a node.
THEOREM NodeRefines == NodeSpec => FetcherRefined
<1>1. NodeInit => Init
  BY DEF NodeInit
<1>2. CallsOK /\ [NodeNext]_nodeVars => [Next]_vars
  BY NodeStep DEF CallsOK
<1> QED BY <1>1, <1>2, CallsInvariance, PTL DEF NodeSpec, FetcherRefined, Spec

\* Hence no panic in a node, whatever its peers send and whenever they leave.
THEOREM NodePanicFree == NodeSpec => []NoPanic
BY NodeRefines, PanicFree, PTL DEF FetcherRefined

\* Nor is the metadata of a waiting hash replaced in a node.
THEOREM NodeMetaKept == NodeSpec => MetaKept
BY NodeRefines, FirstMetaKept, PTL DEF FetcherRefined

\* A peer that left the peer set has no slot and no request in the fetcher
\* (unregisterPeer calls Drop first, eth/handler.go:506-510).
THEOREM LeaversForgotten == NodeSpec => []GoneForgotten
<1>1. NodeInit => Leaving
  BY DEF NodeInit, Init, Leaving, Forgotten, NoRequest
<1>2. IInv /\ CallsOK /\ Leaving /\ [NodeNext]_nodeVars => Leaving'
  BY LeavingStep
<1>3. NodeSpec => []IInv
  BY NodeRefines, Invariance, PTL DEF FetcherRefined
<1>4. Leaving => GoneForgotten
  BY DEF Leaving, GoneForgotten, Gone, Forgotten
<1> QED BY <1>1, <1>2, <1>3, <1>4, CallsInvariance, PTL DEF NodeSpec
=============================================================================
