-------------------------------- MODULE Dial --------------------------------
(***************************************************************************)
(* p2p/dial.go: the dial scheduler.  Its loop owns all the state below; a  *)
(* case of the select is one action, followed by the launch of static      *)
(* dials at the top of the loop, one action each.  A dial task runs in its *)
(* own goroutine; what it does on the way to the server is in module       *)
(* Server, which also makes the calls peerAdded and peerRemoved.           *)
(*                                                                         *)
(* Node are the remote nodes.  What checkDial finds out from the node      *)
(* alone (own ID, no TCP port, netRestrict) never changes: Node are those  *)
(* that pass.                                                              *)
(***************************************************************************)
EXTENDS Integers, Sequences, FiniteSets

CONSTANTS
    Node,
    MaxDialPeers,       \* maxDialPeers
    MaxActiveDials      \* maxActiveDials

ASSUME DialAssumption ==
    /\ IsFiniteSet(Node)
    /\ MaxDialPeers \in Nat /\ MaxActiveDials \in Nat \ {0}

VARIABLES
    loop,           \* where the loop is
    slots,          \* free slots left to this turn of the loop
    static,         \* nodes with a static task
    staticPool,     \* static tasks that may be dialed, by node
    poolIndex,      \* staticPoolIndex of the task of each static node
    dialing,        \* nodes with a running task
    peers,          \* nodes known to be connected
    dialPeers,      \* connected peers that were dialed
    history         \* recently dialed nodes, the first to expire first

dialVars == <<loop, slots, static, staticPool, poolIndex, dialing, peers, dialPeers,
              history>>

-----------------------------------------------------------------------------
(* Helpers                                                                 *)

InHistory(n, h) == \E i \in DOMAIN h : h[i] = n

\* checkDial, for given active tasks, peers and history.
CheckDial(n, d, p, h) == n \notin d /\ n \notin p /\ ~InHistory(n, h)

\* freeDialSlots.
FreeDialSlots(d, c) ==
    LET most == (MaxDialPeers - c) * 2
    IN  (IF most > MaxActiveDials THEN MaxActiveDials ELSE most) - Cardinality(d)

\* The loop turns: the slots are counted and static dials are launched.
Turn == loop' = "launch" /\ slots' = FreeDialSlots(dialing', dialPeers')

AddToStaticPool(n) ==
    /\ staticPool' = Append(staticPool, n)
    /\ poolIndex' = [poolIndex EXCEPT ![n] = Len(staticPool)]

\* removeFromStaticPool: the last task moves to the place that gets free.
RemoveFromStaticPool(idx) ==
    LET last == staticPool[Len(staticPool)]
        task == staticPool[idx + 1]
    IN  /\ staticPool' = [i \in 1 .. Len(staticPool) - 1 |->
                              IF i = idx + 1 THEN last ELSE staticPool[i]]
        /\ poolIndex' = [poolIndex EXCEPT ![last] = idx, ![task] = -1]

\* updateStaticPool with the active tasks, peers and history of after.
UpdateStaticPool(n, d, p, h) ==
    IF n \in static /\ poolIndex[n] < 0 /\ CheckDial(n, d, p, h)
    THEN AddToStaticPool(n)
    ELSE UNCHANGED <<staticPool, poolIndex>>

DialInit ==
    /\ loop = "launch" /\ static = {} /\ staticPool = <<>>
    /\ poolIndex = [n \in Node |-> -1]
    /\ dialing = {} /\ peers = {} /\ dialPeers = 0 /\ history = <<>>
    /\ slots = FreeDialSlots({}, 0)

-----------------------------------------------------------------------------
(* The top of the loop                                                     *)

\* startStaticDials: one task of the pool, picked at random.
StartStaticDial(i) ==
    /\ loop = "launch" /\ slots > 0 /\ i \in DOMAIN staticPool
    /\ dialing' = dialing \cup {staticPool[i]}
    /\ history' = Append(history, staticPool[i])
    /\ RemoveFromStaticPool(i - 1)
    /\ slots' = slots - 1
    /\ UNCHANGED <<loop, static, peers, dialPeers>>

\* No slot or no static task is left; the loop waits for the next event, for
\* candidates only if there is a slot left.
Listen ==
    /\ loop = "launch" /\ (slots <= 0 \/ staticPool = <<>>)
    /\ loop' = "select"
    /\ UNCHANGED <<slots, static, staticPool, poolIndex, dialing, peers, dialPeers, history>>

-----------------------------------------------------------------------------
(* The cases of the select                                                 *)

\* A candidate of the iterator.
NodeFound(n) ==
    /\ loop = "select" /\ slots > 0
    /\ IF CheckDial(n, dialing, peers, history)
       THEN dialing' = dialing \cup {n} /\ history' = Append(history, n)
       ELSE UNCHANGED <<dialing, history>>
    /\ UNCHANGED <<static, staticPool, poolIndex, peers, dialPeers>>
    /\ Turn

TaskDone(n) ==
    /\ loop = "select" /\ n \in dialing
    /\ dialing' = dialing \ {n}
    /\ UpdateStaticPool(n, dialing', peers, history)
    /\ UNCHANGED <<static, peers, dialPeers, history>>
    /\ Turn

\* peerAdded, for a connection that was dialed or not.
PeerAdded(n, dialed) ==
    /\ loop = "select"
    /\ dialPeers' = dialPeers + (IF dialed THEN 1 ELSE 0)
    /\ peers' = peers \cup {n}
    /\ IF n \in static /\ poolIndex[n] >= 0
       THEN RemoveFromStaticPool(poolIndex[n])
       ELSE UNCHANGED <<staticPool, poolIndex>>
    /\ UNCHANGED <<static, dialing, history>>
    /\ Turn

\* Mutant: a static node is left out of the pool when its connection ends.
BugPeerRemoved(n, dialed) ==
    /\ loop = "select"
    /\ dialPeers' = dialPeers - (IF dialed THEN 1 ELSE 0)
    /\ peers' = peers \ {n}
    /\ UNCHANGED <<static, staticPool, poolIndex, dialing, history>>
    /\ Turn

PeerRemoved(n, dialed) ==
    /\ loop = "select"
    /\ dialPeers' = dialPeers - (IF dialed THEN 1 ELSE 0)
    /\ peers' = peers \ {n}
    /\ UpdateStaticPool(n, dialing, peers', history)
    /\ UNCHANGED <<static, dialing, history>>
    /\ Turn

AddStatic(n) ==
    /\ loop = "select"
    /\ IF n \in static
       THEN UNCHANGED <<static, staticPool, poolIndex>>
       ELSE /\ static' = static \cup {n}
            /\ IF CheckDial(n, dialing, peers, history)
               THEN AddToStaticPool(n)
               ELSE UNCHANGED <<staticPool, poolIndex>>
    /\ UNCHANGED <<dialing, peers, dialPeers, history>>
    /\ Turn

RemoveStatic(n) ==
    /\ loop = "select"
    /\ static' = static \ {n}
    /\ IF n \in static /\ poolIndex[n] >= 0
       THEN RemoveFromStaticPool(poolIndex[n])
       ELSE UNCHANGED <<staticPool, poolIndex>>
    /\ UNCHANGED <<dialing, peers, dialPeers, history>>
    /\ Turn

\* historyTimer fires; expire takes items off as long as they are too old.
ExpireHistory ==
    /\ loop = "select" /\ history # <<>>
    /\ loop' = "expire"
    /\ UNCHANGED <<slots, static, staticPool, poolIndex, dialing, peers, dialPeers, history>>

ExpireItem ==
    /\ loop = "expire" /\ history # <<>>
    /\ history' = Tail(history)
    /\ UpdateStaticPool(Head(history), dialing, peers, history')
    /\ UNCHANGED <<loop, slots, static, dialing, peers, dialPeers>>

ExpireReturn ==
    /\ loop = "expire"
    /\ UNCHANGED <<static, staticPool, poolIndex, dialing, peers, dialPeers, history>>
    /\ Turn

\* stop cancels the context; the loop then waits for the running tasks.
Cancelled ==
    /\ loop = "select"
    /\ loop' = "stopping"
    /\ UNCHANGED <<slots, static, staticPool, poolIndex, dialing, peers, dialPeers, history>>

TaskDrained(n) ==
    /\ loop = "stopping" /\ n \in dialing
    /\ dialing' = dialing \ {n}
    /\ UNCHANGED <<loop, slots, static, staticPool, poolIndex, peers, dialPeers, history>>

LoopExit ==
    /\ loop = "stopping" /\ dialing = {}
    /\ loop' = "exited"
    /\ UNCHANGED <<slots, static, staticPool, poolIndex, dialing, peers, dialPeers, history>>

\* The steps the loop takes on its own.
LoopStep ==
    \/ \E i \in DOMAIN staticPool : StartStaticDial(i)
    \/ Listen \/ ExpireHistory \/ ExpireItem \/ ExpireReturn \/ LoopExit

\* The scheduler in any surroundings that add a peer once and remove only it.
DialNext ==
    \/ LoopStep \/ Cancelled
    \/ \E n \in Node :
           \/ NodeFound(n) \/ TaskDone(n) \/ TaskDrained(n)
           \/ AddStatic(n) \/ RemoveStatic(n)
           \/ \E dialed \in BOOLEAN :
                  \/ n \notin peers /\ PeerAdded(n, dialed)
                  \/ n \in peers /\ PeerRemoved(n, dialed)

DialSpec == DialInit /\ [][DialNext]_dialVars

-----------------------------------------------------------------------------
(* Properties                                                              *)

\* A task of the pool is at the place its index says and belongs to a static
\* node that may be dialed; an index names a place of the pool.
PoolSound ==
    /\ \A i \in DOMAIN staticPool :
           /\ poolIndex[staticPool[i]] = i - 1
           /\ staticPool[i] \in static
           /\ CheckDial(staticPool[i], dialing, peers, history)
    /\ \A n \in Node : poolIndex[n] # -1 =>
           poolIndex[n] + 1 \in DOMAIN staticPool /\ staticPool[poolIndex[n] + 1] = n

\* A static node that is neither connected, nor dialed, nor dialed lately is
\* in the pool; and no static node waits there while a slot is unused.
PoolComplete ==
    /\ \A n \in static : CheckDial(n, dialing, peers, history) => poolIndex[n] >= 0
    /\ loop = "select" => slots <= 0 \/ staticPool = <<>>

\* The pool of static tasks is exact, whatever events come between the dial
\* of a static node and its return: the loop keeps it up to date by single
\* additions and removals and never recomputes it, so a forgotten node would
\* never be dialed again.  No node is listed twice as recently dialed.
PoolExact ==
    /\ loop # "stopping" /\ loop # "exited" => PoolSound /\ PoolComplete
    /\ \A i, j \in DOMAIN history : history[i] = history[j] => i = j

=============================================================================
