------------------------------ MODULE TxFetcher ------------------------------
(***************************************************************************)
(* eth/fetcher/tx_fetcher.go: the announcement based transaction fetcher.  *)
(*                                                                         *)
(* One goroutine (loop) owns every map of the fetcher and handles, one at  *)
(* a time, announcements, deliveries, peer drops and two timers: one       *)
(* action per case of its select.  What it may receive is unrestricted:    *)
(* the filters that run before it (hasTx, isKnownUnderpriced) are racy, a  *)
(* peer may deliver what it was not asked for, and Drop is called both     *)
(* when a peer leaves and when a request to it cannot be sent.             *)
(* TxFetcherNode adds the goroutines that call the fetcher.                *)
(*                                                                         *)
(* A map entry that is absent in the code is the empty set, NoMeta, NoPeer *)
(* or NoRequest here.  Every announcement has metadata: eth/68 is the only *)
(* version served.  An announcement lists a hash once.                     *)
(***************************************************************************)
EXTENDS Integers, FiniteSets, FiniteSetsExt

CONSTANTS
  Peer,                 \* identifiers of remote peers
  Hash,                 \* transaction hashes
  Meta,                 \* announced metadata (a kind and a size)
  TxMeta,               \* the metadata a transaction really has
  NoPeer,               \* no peer is fetching a hash
  NoMeta,               \* a peer does not announce a hash
  MaxTxAnnounces,       \* maxTxAnnounces
  MaxTxRetrievals,      \* maxTxRetrievals
  MaxTxRetrievalSize    \* maxTxRetrievalSize

ASSUME PeerAssumption == IsFiniteSet(Peer) /\ NoPeer \notin Peer
ASSUME HashAssumption == IsFiniteSet(Hash)
ASSUME MetaAssumption == /\ Meta \subseteq [kind : Nat, size : Nat]
                         /\ NoMeta \notin Meta
                         /\ TxMeta \in [Hash -> [kind : Nat, size : Nat]]
ASSUME LimitAssumption == /\ MaxTxAnnounces \in Nat \ {0}
                          /\ MaxTxRetrievals \in Nat \ {0}
                          /\ MaxTxRetrievalSize \in Nat \ {0}

VARIABLES
  \* stage 1
  waitlist,      \* hash -> peers that announced it
  waittime,      \* hash -> how long it has been waiting
  waitslots,     \* peer -> hash -> metadata
  \* stages 2 and 3
  announces,     \* peer -> hash -> metadata
  announced,     \* hash -> peers to download from (stage 2)
  fetching,      \* hash -> peer it is requested from (stage 3)
  requests,      \* peer -> in-flight request
  alternates,    \* hash -> other origins while it is in flight
  \* the timers of the loop and the state of its goroutine
  waitTimer, timeoutTimer,
  running,       \* FALSE once quit is closed
  panicked,      \* TRUE once a panic of the loop has been reached
  removing       \* peers dropPeer was called for since they registered

waitVars  == <<waitlist, waittime, waitslots>>
fetchVars == <<announces, announced, fetching, requests, alternates>>
vars      == <<waitVars, fetchVars, waitTimer, timeoutTimer, running, panicked, removing>>

Slot      == Meta \cup {NoMeta}
NoSlots   == [h \in Hash |-> NoMeta]
Request   == [open : {TRUE}, hashes : SUBSET Hash, stolen : SUBSET Hash, time : {"fresh", "expired"}]
NoRequest == [open |-> FALSE, hashes |-> {}, stolen |-> {}, time |-> "fresh"]

Held(slots)   == {h \in Hash : slots[h] # NoMeta}
\* The hashes of the waiting list, of the queue and in flight.
Waiting  == {h \in Hash : waitlist[h] # {}}
Queued   == {h \in Hash : announced[h] # {}}
Fetching == {h \in Hash : fetching[h] # NoPeer}

TypeOK ==
  /\ waitlist \in [Hash -> SUBSET Peer]
  /\ waittime \in [Hash -> {"none", "fresh", "expired"}]
  /\ waitslots \in [Peer -> [Hash -> Slot]]
  /\ announces \in [Peer -> [Hash -> Slot]]
  /\ announced \in [Hash -> SUBSET Peer]
  /\ fetching \in [Hash -> Peer \cup {NoPeer}]
  /\ requests \in [Peer -> Request \cup {NoRequest}]
  /\ alternates \in [Hash -> SUBSET Peer]
  /\ waitTimer \in BOOLEAN /\ timeoutTimer \in BOOLEAN
  /\ running \in BOOLEAN /\ panicked \in BOOLEAN
  /\ removing \in SUBSET Peer

\* NewTxFetcher
Init ==
  /\ waitlist = [h \in Hash |-> {}]
  /\ waittime = [h \in Hash |-> "none"]
  /\ waitslots = [p \in Peer |-> NoSlots]
  /\ announces = [p \in Peer |-> NoSlots]
  /\ announced = [h \in Hash |-> {}]
  /\ fetching = [h \in Hash |-> NoPeer]
  /\ requests = [p \in Peer |-> NoRequest]
  /\ alternates = [h \in Hash |-> {}]
  /\ waitTimer = FALSE /\ timeoutTimer = FALSE
  /\ running = TRUE /\ panicked = FALSE
  /\ removing = {}

-----------------------------------------------------------------------------
(***************************************************************************)
(* scheduleFetches.  Peers are visited in an arbitrary order (a Go map);   *)
(* each idle one takes hashes it announced that nobody is fetching, in an  *)
(* arbitrary order again, until a limit is reached.  The operands are the  *)
(* maps as the calling handler leaves them.                                *)
(***************************************************************************)

\* The request is full: maxTxRetrievals hashes or maxTxRetrievalSize bytes.
BatchFull(slots, batch) ==
  \/ Cardinality(batch) >= MaxTxRetrievals
  \/ MapThenSumSet(LAMBDA h : slots[h].size, batch) >= MaxTxRetrievalSize

\* What forEachAnnounce may collect from the hashes that are still free.
Batches(slots, free) ==
  {batch \in SUBSET free :
     /\ batch = free \/ BatchFull(slots, batch)
     /\ batch # {} => \E last \in batch : ~BatchFull(slots, batch \ {last})}

\* Announced by the peer and not fetched by anyone.
Candidates(slots, fet) == {h \in Hash : slots[h] # NoMeta /\ fet[h] = NoPeer}

\* The assignments of hashes to peers that the two loops may end with.
Allocations(actives, ann, fet, req) ==
  LET idle   == {p \in actives : ~req[p].open /\ Held(ann[p]) # {}}
      wanted == UNION {Candidates(ann[p], fet) : p \in idle}
  IN {alloc \in [Peer -> SUBSET wanted] :
        /\ \A p \in Peer \ idle : alloc[p] = {}
        /\ \E rank \in [idle -> 1..Cardinality(idle)] :
             /\ \A p, q \in idle : rank[p] = rank[q] => p = q
             /\ \A p \in idle :
                  LET taken == UNION {alloc[q] : q \in {r \in idle : rank[r] < rank[p]}}
                  IN alloc[p] \in Batches(ann[p], Candidates(ann[p], fet) \ taken)}

Requested(alloc) == UNION {alloc[p] : p \in Peer}

\* The new request of a peer.
NewRequest(batch) == [open |-> TRUE, hashes |-> batch, stolen |-> {}, time |-> "fresh"]

\* No request was in flight before, so no timeout is scheduled.
BugIdle(req) == \A p \in Peer : ~requests'[p].open
Idle(req) == \A p \in Peer : ~req[p].open

ScheduleFetches(actives, ann, anned, alt, fet, req, timer, panic) ==
  \E alloc \in Allocations(actives, ann, fet, req) :
    /\ announces' = ann
    /\ fetching' = [h \in Hash |-> IF h \in Requested(alloc)
                                     THEN CHOOSE p \in Peer : h \in alloc[p] ELSE fet[h]]
    /\ alternates' = [h \in Hash |-> IF h \in Requested(alloc) THEN anned[h] ELSE alt[h]]
    /\ announced' = [h \in Hash |-> IF h \in Requested(alloc) THEN {} ELSE anned[h]]
    /\ requests' = [p \in Peer |-> IF alloc[p] # {} THEN NewRequest(alloc[p]) ELSE req[p]]
    /\ timeoutTimer' = (timer \/ (Idle(req) /\ Requested(alloc) # {}))
    /\ panicked' = (panic \/ \E h \in Requested(alloc) : alt[h] # {})

\* The default for the peers to schedule: all that announced something.
BugAnnouncers(ann) == {}
Announcers(ann) == {p \in Peer : Held(ann[p]) # {}}

\* The handler leaves the maps as given and schedules nothing.
KeepFetches(ann, anned, alt, fet, req, panic) ==
  /\ announces' = ann /\ announced' = anned /\ alternates' = alt
  /\ fetching' = fet /\ requests' = req /\ panicked' = panic
  /\ UNCHANGED timeoutTimer

-----------------------------------------------------------------------------
(***************************************************************************)
(* The loop: case ann := <-f.notify                                        *)
(***************************************************************************)
Used(p) == Cardinality(Held(waitslots[p])) + Cardinality(Held(announces[p]))

\* The announcement is cut to its first want-maxTxAnnounces hashes.
Accepted(hashes, used) ==
  LET want == used + Cardinality(hashes)
  IN IF want > MaxTxAnnounces
       THEN {S \in SUBSET hashes : Cardinality(S) = want - MaxTxAnnounces}
       ELSE {hashes}

\* Is the hash queued or in flight already (the other cases go to stage 1)?
Downloading(h) == alternates[h] # {} \/ announced[h] # {}

\* Double announcements of a waiting hash are ignored.
BugFirstAnnounce(h, p) == TRUE
FirstAnnounce(h, p) == p \notin waitlist[h]

IdleWait == Waiting = {}

LoopNotify(p, metas) ==
  /\ running
  /\ Used(p) < MaxTxAnnounces      \* else all of it is dropped
  /\ \E take \in Accepted(Held(metas), Used(p)) :
       LET late  == {h \in take : Downloading(h)}
           wait  == take \ late
           ann   == [announces EXCEPT ![p] =
                       [h \in Hash |-> IF h \in late THEN metas[h] ELSE announces[p][h]]]
           alt   == [h \in Hash |-> IF h \in late /\ alternates[h] # {}
                                      THEN alternates[h] \cup {p} ELSE alternates[h]]
           anned == [h \in Hash |-> IF h \in late /\ alternates[h] = {}
                                      THEN announced[h] \cup {p} ELSE announced[h]]
       IN /\ waitlist' = [h \in Hash |-> IF h \in wait THEN waitlist[h] \cup {p} ELSE waitlist[h]]
          /\ waitslots' = [waitslots EXCEPT ![p] =
                             [h \in Hash |-> IF h \in wait /\ FirstAnnounce(h, p)
                                               THEN metas[h] ELSE waitslots[p][h]]]
          /\ waittime' = [h \in Hash |-> IF h \in wait /\ waitlist[h] = {} THEN "fresh" ELSE waittime[h]]
          /\ waitTimer' = (waitTimer \/ (IdleWait /\ wait # {}))
          /\ IF Held(announces[p]) = {} /\ Held(ann[p]) # {}
               THEN ScheduleFetches({p}, ann, anned, alt, fetching, requests, timeoutTimer, panicked)
               ELSE KeepFetches(ann, anned, alt, fetching, requests, panicked)
  /\ UNCHANGED <<running, removing>>

(***************************************************************************)
(* case <-waitTrigger: hashes that waited long enough move to the queue.   *)
(***************************************************************************)
\* The wait timer is scheduled again when some hash has not expired.
BugStillWaiting(exp) == FALSE
StillWaiting(exp) == Waiting \ exp # {}

LoopWait ==
  /\ running /\ waitTimer
  /\ LET exp     == {h \in Waiting : waittime[h] = "expired"}
         anned   == [h \in Hash |-> IF h \in exp THEN waitlist[h] ELSE announced[h]]
         actives == UNION {waitlist[h] : h \in exp}
         ann     == [p \in Peer |-> [h \in Hash |-> IF h \in exp /\ p \in waitlist[h]
                                                     THEN waitslots[p][h] ELSE announces[p][h]]]
         panic   == panicked \/ \E h \in exp : announced[h] # {}
     IN /\ waitlist' = [h \in Hash |-> IF h \in exp THEN {} ELSE waitlist[h]]
        /\ waittime' = [h \in Hash |-> IF h \in exp THEN "none" ELSE waittime[h]]
        /\ waitslots' = [p \in Peer |-> [h \in Hash |-> IF h \in exp /\ p \in waitlist[h]
                                                          THEN NoMeta ELSE waitslots[p][h]]]
        /\ waitTimer' = StillWaiting(exp)
        /\ IF actives # {}
             THEN ScheduleFetches(actives, ann, anned, alternates, fetching, requests, timeoutTimer, panic)
             ELSE KeepFetches(ann, anned, alternates, fetching, requests, panic)
  /\ UNCHANGED <<running, removing>>

(***************************************************************************)
(* case <-timeoutTrigger: requests past txFetchTimeout are emptied but     *)
(* stay open, and what they asked for goes back to the queue.              *)
(***************************************************************************)

\* The hashes a request still has to deliver: req.hashes without req.stolen.
BugUndelivered(req) == req.hashes
Undelivered(req) == req.hashes \ req.stolen

\* A request that timed out is kept, without hashes.
Dangling(req) == [req EXCEPT !.hashes = {}]

\* The peers left to fetch a hash from when the request of peer p failed.
OtherOrigins(h, p) == alternates[h] \ {p}

LoopTimeout ==
  /\ running /\ timeoutTimer
  /\ LET late      == {p \in Peer : requests[p].open /\ requests[p].time = "expired"}
         Back(p)   == IF p \in late THEN Undelivered(requests[p]) ELSE {}
         back      == UNION {Back(p) : p \in late}
         anned     == [h \in Hash |-> IF h \in back
                         THEN OtherOrigins(h, CHOOSE p \in late : h \in Back(p)) ELSE announced[h]]
         ann       == [p \in Peer |-> [h \in Hash |-> IF h \in Back(p) THEN NoMeta ELSE announces[p][h]]]
         alt       == [h \in Hash |-> IF h \in back THEN {} ELSE alternates[h]]
         fet       == [h \in Hash |-> IF h \in back THEN NoPeer ELSE fetching[h]]
         req       == [p \in Peer |-> IF p \in late THEN Dangling(requests[p]) ELSE requests[p]]
         panic     == panicked \/ \E h \in back : announced[h] # {}
     IN ScheduleFetches(Announcers(ann), ann, anned, alt, fet, req, TRUE, panic)
  /\ UNCHANGED <<waitVars, waitTimer, running, removing>>

(***************************************************************************)
(* case delivery := <-f.cleanup                                            *)
(***************************************************************************)

\* The announced kind differs, or the size by more than 8 bytes.
Mismatch(meta, h) ==
  /\ meta # NoMeta
  /\ \/ meta.kind # TxMeta[h].kind
     \/ meta.size - TxMeta[h].size > 8 \/ TxMeta[h].size - meta.size > 8

\* A hash in flight was delivered by someone else, or by a broadcast.
BugIsStolen(h, origin, direct) == fetching[h] # NoPeer /\ fetching[h] # origin
IsStolen(h, origin, direct) ==
  fetching[h] # NoPeer /\ (fetching[h] # origin \/ ~direct)

\* The undelivered hashes that precede the last delivered one in the request.
\* A request lists its hashes in the arbitrary order of a Go map and the order
\* is used nowhere else, so any subset may be; without a delivery all are.
Skipped(req, missing, delivered) ==
  IF req.hashes \cap delivered = {} THEN {missing} ELSE SUBSET missing

LoopCleanup(p, hashes, direct) ==
  /\ running
  /\ LET wait   == hashes \cap Waiting
         rest   == hashes \ wait
         bad    == {q \in Peer : \/ \E h \in wait : Mismatch(waitslots[q][h], h)
                                 \/ \E h \in rest : Mismatch(announces[q][h], h)}
         Clear(f, S, none) == [h \in Hash |-> IF h \in S THEN none ELSE f[h]]
         ann    == [q \in Peer |-> Clear(announces[q], rest, NoMeta)]
         anned  == Clear(announced, rest, {})
         alt    == Clear(alternates, rest, {})
         fet    == Clear(fetching, rest, NoPeer)
         Stolen(q) == {h \in rest : fetching[h] = q /\ IsStolen(h, p, direct)}
         req    == [q \in Peer |-> [requests[q] EXCEPT !.stolen = @ \cup Stolen(q)]]
         \* f.requests[origin] is nil
         panic  == panicked \/ \E q \in Peer : Stolen(q) # {} /\ ~requests[q].open
     IN /\ removing' = removing \cup bad
        /\ waitlist' = Clear(waitlist, wait, {})
        /\ waittime' = Clear(waittime, wait, "none")
        /\ waitslots' = [q \in Peer |-> Clear(waitslots[q], wait, NoMeta)]
        /\ UNCHANGED waitTimer
        /\ IF ~direct \/ ~req[p].open
             THEN KeepFetches(ann, anned, alt, fet, req, panic)
             ELSE LET open    == Undelivered(req[p])
                      missing == open \ hashes
                  IN \E skip \in Skipped(req[p], missing, hashes) :
                       LET Left(h) == IF h \in skip THEN alt[h] \ {p} ELSE alt[h]
                           back    == {h \in missing : Left(h) # {}}
                           ann2    == [ann EXCEPT ![p] = Clear(ann[p], skip, NoMeta)]
                       IN ScheduleFetches(Announcers(ann2), ann2,
                            [h \in Hash |-> IF h \in back THEN Left(h) ELSE anned[h]],
                            Clear(alt, open, {}), Clear(fet, open, NoPeer),
                            [req EXCEPT ![p] = NoRequest], timeoutTimer,
                            panic \/ \E h \in back : anned[h] # {})
  /\ UNCHANGED running

(***************************************************************************)
(* case drop := <-f.drop                                                   *)
(***************************************************************************)
\* Who is left to announce a waiting hash when peer p leaves.
OtherWaiters(h, p) == waitlist[h] \ {p}

LoopDrop(p) ==
  /\ running
  /\ LET mine  == Held(waitslots[p])
         req   == requests[p]
         open  == Undelivered(req)
         Requeued(h) == h \in open /\ OtherOrigins(h, p) # {}
         anned == [h \in Hash |-> (IF Requeued(h) THEN OtherOrigins(h, p) ELSE announced[h])
                                   \ (IF announces[p][h] # NoMeta THEN {p} ELSE {})]
         ann   == [announces EXCEPT ![p] = NoSlots]
         alt   == [h \in Hash |-> IF h \in open THEN {} ELSE alternates[h]]
         fet   == [h \in Hash |-> IF h \in open THEN NoPeer ELSE fetching[h]]
         left  == [h \in Hash |-> IF h \in mine THEN OtherWaiters(h, p) ELSE waitlist[h]]
     IN /\ waitlist' = left
        /\ waittime' = [h \in Hash |-> IF h \in mine /\ left[h] = {} THEN "none" ELSE waittime[h]]
        /\ waitslots' = [waitslots EXCEPT ![p] = NoSlots]
        /\ waitTimer' = (waitTimer \/ (mine # {} /\ \E h \in Hash : left[h] # {}))
        /\ IF req.open
             THEN ScheduleFetches(Announcers(ann), ann, anned, alt, fet,
                                  [requests EXCEPT ![p] = NoRequest], TRUE, panicked)
             ELSE KeepFetches(ann, anned, alternates, fetching, requests, panicked)
  /\ UNCHANGED <<running, removing>>

-----------------------------------------------------------------------------
(* The clock, connections and termination. *)

\* txArriveTimeout has passed for all hashes that are waiting.
WaitElapses ==
  /\ running
  /\ waittime' = [h \in Hash |-> IF waittime[h] = "fresh" THEN "expired" ELSE waittime[h]]
  /\ UNCHANGED <<waitlist, waitslots, fetchVars, waitTimer, timeoutTimer, running, panicked, removing>>

\* txFetchTimeout, ten times as long, has passed for all requests in flight.
FetchElapses ==
  /\ running
  /\ waittime' = [h \in Hash |-> IF waittime[h] = "fresh" THEN "expired" ELSE waittime[h]]
  /\ requests' = [p \in Peer |-> IF requests[p].open THEN [requests[p] EXCEPT !.time = "expired"]
                                                      ELSE requests[p]]
  /\ UNCHANGED <<waitlist, waitslots, announces, announced, fetching, alternates,
                 waitTimer, timeoutTimer, running, panicked, removing>>

\* A peer dropPeer was called for has left and registers again.
Registered(p) ==
  /\ p \in removing /\ removing' = removing \ {p}
  /\ UNCHANGED <<waitVars, fetchVars, waitTimer, timeoutTimer, running, panicked>>

\* Stop closes quit and the loop returns.
Stop ==
  /\ running /\ running' = FALSE
  /\ UNCHANGED <<waitVars, fetchVars, waitTimer, timeoutTimer, panicked, removing>>

Next ==
  \/ \E p \in Peer : \/ \E metas \in [Hash -> Slot] : LoopNotify(p, metas)
                     \/ \E hashes \in SUBSET Hash, direct \in BOOLEAN : LoopCleanup(p, hashes, direct)
                     \/ LoopDrop(p)
                     \/ Registered(p)
  \/ LoopWait \/ LoopTimeout \/ WaitElapses \/ FetchElapses \/ Stop

Spec == Init /\ [][Next]_vars

\* Timers fire, Go's select takes a ready timer case eventually, time passes.
\* Nothing is assumed of what peers send.
Fairness ==
  /\ WF_vars(LoopWait) /\ WF_vars(LoopTimeout)
  /\ WF_vars(WaitElapses) /\ WF_vars(FetchElapses)

FairSpec == Spec /\ Fairness

-----------------------------------------------------------------------------
(***************************************************************************)
(* Properties                                                              *)
(***************************************************************************)

\* Each tracked hash is in exactly one of the three stages, and alternates has
\* an entry exactly for the hashes in flight (tx_fetcher.go:157-163).
OneStage ==
  \A h \in Hash :
    /\ ~(h \in Waiting /\ h \in Queued) /\ ~(h \in Waiting /\ h \in Fetching)
    /\ ~(h \in Queued /\ h \in Fetching)
    /\ alternates[h] # {} <=> h \in Fetching

\* A hash is in flight with exactly the peer whose open request lists it as not
\* delivered, and which announces it: no retrieval is lost or asked of two peers.
FetchOwned ==
  \A h \in Hash, p \in Peer :
    /\ fetching[h] = p <=> h \in requests[p].hashes \ requests[p].stolen
    /\ fetching[h] = p => announces[p][h] # NoMeta /\ p \in alternates[h]

\* The per-peer indices used for the DoS limits agree with the per-hash ones.
SlotsMirrored ==
  \A h \in Hash, p \in Peer :
    /\ p \in waitlist[h] <=> waitslots[p][h] # NoMeta
    /\ announces[p][h] # NoMeta => p \in announced[h] \cup alternates[h]

\* The maps of the loop agree with each other, whatever was announced, delivered,
\* stolen, timed out or dropped in whatever order: eight maps changed by hand in
\* five cases describe one state of each hash and each peer.
MapsAgree == OneStage /\ FetchOwned /\ SlotsMirrored

\* None of the panics of the loop is reached, nor the nil request of a stolen
\* delivery (tx_fetcher.go:510, 557, 646, 700, 883).
NoPanic == ~panicked

\* A timer runs whenever something waits for it: the flags that decide about
\* rescheduling (idleWait, idle) never leave a waiting hash or a request alone.
TimersArmed ==
  /\ Waiting # {} => waitTimer
  /\ (\E p \in Peer : requests[p].open) => timeoutTimer

\* The metadata a peer gave first for a waiting hash is what it is judged by: a
\* double announcement cannot replace it before or when the hash is queued
\* (tx_fetcher.go:466-471).
MetaKept ==
  [][\A h \in Hash, p \in Peer : waitslots[p][h] # NoMeta =>
       /\ waitslots'[p][h] \in {waitslots[p][h], NoMeta}
       /\ announces'[p][h] # announces[p][h] => announces'[p][h] = waitslots[p][h]]_vars

\* A waiting hash leaves the waiting list: it is delivered, or queued when its
\* time is up.
WaitEnds == \A h \in Hash : []<>(h \notin Waiting \/ ~running)

\* No retrieval stays in flight with the same peer forever: it is delivered,
\* times out, or its peer is dropped.
FetchEnds == \A h \in Hash, p \in Peer : []<>(fetching[h] # p \/ ~running)

\* A queued hash announced by an idle peer does not stay so: it is requested, or
\* arrives, or that peer becomes busy or leaves.
QueueServed ==
  \A h \in Hash, p \in Peer :
    []<>(h \notin Queued \/ announces[p][h] = NoMeta \/ requests[p].open \/ ~running)
=============================================================================
