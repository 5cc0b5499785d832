------------------------------- MODULE Server -------------------------------
(***************************************************************************)
(* p2p/server.go around the dial scheduler: the main loop that owns the    *)
(* set of peers, the goroutines that set connections up (one per dial task *)
(* and one per inbound connection), the goroutine that runs each peer, and *)
(* the callers of AddPeer, RemovePeer and Stop.                            *)
(*                                                                         *)
(* The main loop calls the scheduler by sending on unbuffered channels, so *)
(* such a call is one action of both loops.  Peer.run, which module        *)
(* PeerRun has in detail, is "running" until it has closed the peer.       *)
(* Feed.Send (module Feed) delivers one event to every subscriber, here to *)
(* the channel of RemovePeer; all others are taken to keep reading.        *)
(***************************************************************************)
EXTENDS Dial

CONSTANTS
    MaxPeers,       \* Config.MaxPeers
    MaxInbound,     \* maxInboundConns
    Trusted,        \* Config.TrustedNodes
    Found,          \* nodes the iterator yields
    Inbound,        \* nodes that connect to us
    Static,         \* nodes given to AddPeer and RemovePeer
    MaxDrops        \* bound: drop events of one node that wait to be sent

ASSUME ServerAssumption ==
    /\ MaxPeers \in Nat /\ MaxInbound \in Nat /\ MaxDrops \in Nat \ {0}
    /\ Trusted \subseteq Node /\ Found \subseteq Node
    /\ Inbound \subseteq Node /\ Static \subseteq Node

VARIABLES
    srv,            \* where the main loop is
    at,             \* the connection it works on: a node and a direction
    peer,           \* peers and their goroutines, by node
    inboundCount,
    setup,          \* setup[n]["out"]: dial task of n; ["in"]: inbound connection
    drops,          \* goroutines of removed peers that have Drop still to send
    remove,         \* the call of RemovePeer
    removing,       \* its node
    ch,             \* its channel, which gets events while it is subscribed
    toDisc,         \* peers that the end of run has not disconnected
    quit            \* srv.quit is closed

serverVars == <<srv, at, peer, inboundCount, setup, drops, remove, removing, ch, toDisc, quit>>
vars == <<dialVars, serverVars>>

Direction == {"out", "in"}
NoPeer == [at |-> "none", dir |-> "in", asked |-> FALSE]
None == << >>
NoChannel == [subscribed |-> FALSE, events |-> << >>]

Init ==
    /\ DialInit
    /\ srv = "select" /\ at = None
    /\ peer = [n \in Node |-> NoPeer]
    /\ inboundCount = 0
    /\ setup = [n \in Node |-> [d \in Direction |-> "none"]]
    /\ drops = [n \in Node |-> 0]
    /\ remove = "idle" /\ removing = None /\ ch = NoChannel
    /\ toDisc = {} /\ quit = FALSE

-----------------------------------------------------------------------------
(* Connections on their way to be a peer                                   *)

\* SetupConn returns: a dial task is done, an inbound connection gone.
SetupEnds(n, d) == setup' = [setup EXCEPT ![n][d] = IF d = "out" THEN "done" ELSE "none"]

SetupGoes(n, d, s) == setup' = [setup EXCEPT ![n][d] = s]

\* startDial has a goroutine run the task.
TaskStarts(n) == setup' = [setup EXCEPT ![n]["out"] = "dial"]

\* dialTask.run reaches the node and calls SetupConn, unless that fails or the
\* server stops; a static task may resolve the node and try once more.
Dialed(n) ==
    /\ setup[n]["out"] = "dial"
    /\ \/ ~quit /\ SetupGoes(n, "out", "enc")
       \/ SetupEnds(n, "out")
    /\ UNCHANGED <<dialVars, srv, at, peer, inboundCount, drops, remove, removing, ch,
                   toDisc, quit>>

Accept(n) ==
    /\ n \in Inbound /\ ~quit /\ setup[n]["in"] = "none"
    /\ SetupGoes(n, "in", "enc")
    /\ UNCHANGED <<dialVars, srv, at, peer, inboundCount, drops, remove, removing, ch,
                   toDisc, quit>>

\* A handshake fails, or checkpoint finds srv.quit closed.
SetupFails(n, d) ==
    /\ setup[n][d] \in {"enc", "proto"}
    /\ SetupEnds(n, d)
    /\ UNCHANGED <<dialVars, srv, at, peer, inboundCount, drops, remove, removing, ch,
                   toDisc, quit>>

Peers == {n \in Node : peer[n].at # "none"}

\* postHandshakeChecks; DiscSelf cannot happen with Node.
PostHandshakeChecks(n, d) ==
    /\ n \in Trusted \/ Cardinality(Peers) < MaxPeers
    /\ n \in Trusted \/ d = "out" \/ inboundCount < MaxInbound
    /\ n \notin Peers

CheckpointPostHandshake(n, d) ==
    /\ srv = "select" /\ setup[n][d] = "enc"
    /\ IF PostHandshakeChecks(n, d) THEN SetupGoes(n, d, "proto") ELSE SetupEnds(n, d)
    /\ UNCHANGED <<dialVars, srv, at, peer, inboundCount, drops, remove, removing, ch,
                   toDisc, quit>>

\* Mutant: the limits, checked after the first handshake, are not checked again.
BugCheckpointAddPeer(n, d) ==
    /\ srv = "select" /\ setup[n][d] = "proto"
    /\ IF n \notin Peers
       THEN /\ peer' = [peer EXCEPT ![n] = [NoPeer EXCEPT !.at = "adding", !.dir = d]]
            /\ SetupGoes(n, d, "wait")
            /\ srv' = "added" /\ at' = <<n, d>>
       ELSE SetupEnds(n, d) /\ UNCHANGED <<peer, srv, at>>
    /\ UNCHANGED <<dialVars, inboundCount, drops, remove, removing, ch, toDisc, quit>>

\* addPeerChecks repeats the checks; launchPeer starts the peer's goroutine.
CheckpointAddPeer(n, d) ==
    /\ srv = "select" /\ setup[n][d] = "proto"
    /\ IF PostHandshakeChecks(n, d)
       THEN /\ peer' = [peer EXCEPT ![n] = [NoPeer EXCEPT !.at = "adding", !.dir = d]]
            /\ SetupGoes(n, d, "wait")
            /\ srv' = "added" /\ at' = <<n, d>>
       ELSE SetupEnds(n, d) /\ UNCHANGED <<peer, srv, at>>
    /\ UNCHANGED <<dialVars, inboundCount, drops, remove, removing, ch, toDisc, quit>>

\* The main loop tells the scheduler and lets SetupConn return.
TellAdded ==
    /\ srv = "added"
    /\ PeerAdded(at[1], at[2] = "out")
    /\ inboundCount' = inboundCount + (IF at[2] = "in" THEN 1 ELSE 0)
    /\ SetupEnds(at[1], at[2])
    /\ srv' = "select" /\ at' = None
    /\ UNCHANGED <<peer, drops, remove, removing, ch, toDisc, quit>>

-----------------------------------------------------------------------------
(* The goroutine of a peer                                                 *)

\* peerFeed.Send can deliver to the channel of RemovePeer, of capacity 1.
Room == ch.subscribed => ch.events = <<>>
Delivered(e) == IF ch.subscribed THEN [ch EXCEPT !.events = Append(@, e)] ELSE ch

SendAdd(n) ==
    /\ peer[n].at = "adding" /\ Room
    /\ peer' = [peer EXCEPT ![n].at = "running"]
    /\ ch' = Delivered(<<"add", n>>)
    /\ UNCHANGED <<dialVars, srv, at, inboundCount, setup, drops, remove, removing,
                   toDisc, quit>>

\* The connection fails or the remote side ends it.
PeerEnds(n) ==
    /\ peer[n].at = "running"
    /\ peer' = [peer EXCEPT ![n].at = "ended"]
    /\ UNCHANGED <<dialVars, srv, at, inboundCount, setup, drops, remove, removing, ch,
                   toDisc, quit>>

\* The main loop takes the peer from delpeer.
DelPeer(n) ==
    /\ srv = "select" /\ peer[n].at = "ended" /\ drops[n] < MaxDrops
    /\ peer' = [peer EXCEPT ![n] = NoPeer]
    /\ drops' = [drops EXCEPT ![n] = @ + 1]
    /\ srv' = "removed" /\ at' = <<n, peer[n].dir>>
    /\ UNCHANGED <<dialVars, inboundCount, setup, remove, removing, ch, toDisc, quit>>

\* Mutant: the scheduler is told of dialed peers only.
BugTellRemoved ==
    /\ srv = "removed"
    /\ IF at[2] = "out" THEN PeerRemoved(at[1], TRUE) ELSE UNCHANGED dialVars
    /\ inboundCount' = inboundCount - (IF at[2] = "in" THEN 1 ELSE 0)
    /\ srv' = "select" /\ at' = None
    /\ UNCHANGED <<peer, setup, drops, remove, removing, ch, toDisc, quit>>

TellRemoved ==
    /\ srv = "removed"
    /\ PeerRemoved(at[1], at[2] = "out")
    /\ inboundCount' = inboundCount - (IF at[2] = "in" THEN 1 ELSE 0)
    /\ srv' = "select" /\ at' = None
    /\ UNCHANGED <<peer, setup, drops, remove, removing, ch, toDisc, quit>>

SendDrop(n) ==
    /\ drops[n] > 0 /\ Room
    /\ drops' = [drops EXCEPT ![n] = @ - 1]
    /\ ch' = Delivered(<<"drop", n>>)
    /\ UNCHANGED <<dialVars, srv, at, peer, inboundCount, setup, remove, removing,
                   toDisc, quit>>

-----------------------------------------------------------------------------
(* AddPeer and RemovePeer                                                  *)

AddPeer(n) ==
    /\ n \in Static
    /\ AddStatic(n)
    /\ UNCHANGED serverVars

RemovePeer(n) ==
    /\ n \in Static /\ remove = "idle"
    /\ remove' = "calling" /\ removing' = n
    /\ UNCHANGED <<dialVars, srv, at, peer, inboundCount, setup, drops, ch, toDisc, quit>>

\* doPeerOp: the main loop runs the function, or the server stops.
RemoveOp ==
    /\ remove = "calling" /\ srv = "select"
    /\ srv' = "op" /\ remove' = "op"
    /\ UNCHANGED <<dialVars, at, peer, inboundCount, setup, drops, removing, ch, toDisc, quit>>

RemoveQuits ==
    /\ remove = "calling" /\ quit
    /\ remove' = "idle" /\ removing' = None
    /\ UNCHANGED <<dialVars, srv, at, peer, inboundCount, setup, drops, ch, toDisc, quit>>

\* The node is no longer static; if it is a peer, RemovePeer subscribes and
\* the main loop calls Disconnect.
RemoveStaticNode ==
    /\ srv = "op"
    /\ RemoveStatic(removing)
    /\ IF removing \in Peers
       THEN /\ srv' = "disconnect" /\ ch' = [NoChannel EXCEPT !.subscribed = TRUE]
            /\ UNCHANGED <<remove, removing>>
       ELSE /\ srv' = "select" /\ remove' = "idle" /\ removing' = None
            /\ UNCHANGED ch
    /\ UNCHANGED <<at, peer, inboundCount, setup, drops, toDisc, quit>>

\* Disconnect returns when Peer.run takes the request or has closed the peer.
RemoveDisconnect ==
    /\ srv = "disconnect" /\ peer[removing].at \in {"running", "ended"}
    /\ peer' = [peer EXCEPT ![removing].at = "ended", ![removing].asked = TRUE]
    /\ srv' = "select" /\ remove' = "waiting"
    /\ UNCHANGED <<dialVars, at, inboundCount, setup, drops, removing, ch, toDisc, quit>>

RemoveEvent ==
    /\ remove = "waiting" /\ ch.events # <<>>
    /\ IF Head(ch.events) = <<"drop", removing>>
       THEN remove' = "idle" /\ removing' = None /\ ch' = NoChannel
       ELSE ch' = [ch EXCEPT !.events = Tail(@)] /\ UNCHANGED <<remove, removing>>
    /\ UNCHANGED <<dialVars, srv, at, peer, inboundCount, setup, drops, toDisc, quit>>

-----------------------------------------------------------------------------
(* Stop                                                                    *)

Stop ==
    /\ ~quit /\ quit' = TRUE
    /\ UNCHANGED <<dialVars, srv, at, peer, inboundCount, setup, drops, remove, removing,
                   ch, toDisc>>

\* Mutant: the loop waits for the peers without disconnecting them.
BugRunBreaks ==
    /\ srv = "select" /\ quit
    /\ srv' = "ending" /\ toDisc' = {}
    /\ UNCHANGED <<dialVars, at, peer, inboundCount, setup, drops, remove, removing, ch, quit>>

RunBreaks ==
    /\ srv = "select" /\ quit
    /\ srv' = "ending" /\ toDisc' = Peers
    /\ UNCHANGED <<dialVars, at, peer, inboundCount, setup, drops, remove, removing, ch, quit>>

\* All peers are disconnected,
StopDisconnect(n) ==
    /\ srv = "ending" /\ n \in toDisc /\ peer[n].at \in {"running", "ended"}
    /\ peer' = [peer EXCEPT ![n].at = "ended"]
    /\ toDisc' = toDisc \ {n}
    /\ UNCHANGED <<dialVars, srv, at, inboundCount, setup, drops, remove, removing, ch, quit>>

\* then awaited,
StopDelPeer(n) ==
    /\ srv = "ending" /\ toDisc = {} /\ peer[n].at = "ended" /\ drops[n] < MaxDrops
    /\ peer' = [peer EXCEPT ![n] = NoPeer]
    /\ drops' = [drops EXCEPT ![n] = @ + 1]
    /\ UNCHANGED <<dialVars, srv, at, inboundCount, setup, remove, removing, ch, toDisc, quit>>

\* and the scheduler is stopped.
StopDialer ==
    /\ srv = "ending" /\ Peers = {}
    /\ Cancelled
    /\ srv' = "dialer"
    /\ UNCHANGED <<at, peer, inboundCount, setup, drops, remove, removing, ch, toDisc, quit>>

Stopped ==
    /\ srv = "dialer" /\ loop = "exited"
    /\ srv' = "stopped"
    /\ UNCHANGED <<dialVars, at, peer, inboundCount, setup, drops, remove, removing, ch,
                   toDisc, quit>>

-----------------------------------------------------------------------------
(* The scheduler's own steps                                               *)

LaunchStatic(i) ==
    /\ StartStaticDial(i)
    /\ TaskStarts(staticPool[i])
    /\ UNCHANGED <<srv, at, peer, inboundCount, drops, remove, removing, ch, toDisc, quit>>

Candidate(n) ==
    /\ n \in Found
    /\ NodeFound(n)
    /\ IF n \in dialing' \ dialing THEN TaskStarts(n) ELSE UNCHANGED setup
    /\ UNCHANGED <<srv, at, peer, inboundCount, drops, remove, removing, ch, toDisc, quit>>

\* The goroutine of a task sends it on doneCh.
TaskEnds(n) ==
    /\ setup[n]["out"] = "done"
    /\ TaskDone(n) \/ TaskDrained(n)
    /\ setup' = [setup EXCEPT ![n]["out"] = "none"]
    /\ UNCHANGED <<srv, at, peer, inboundCount, drops, remove, removing, ch, toDisc, quit>>

LoopRuns ==
    /\ Listen \/ ExpireHistory \/ ExpireItem \/ ExpireReturn \/ LoopExit
    /\ UNCHANGED serverVars

Next ==
    \/ \E n \in Node : \/ Dialed(n) \/ Accept(n) \/ SendAdd(n) \/ PeerEnds(n) \/ DelPeer(n)
                       \/ SendDrop(n) \/ AddPeer(n) \/ RemovePeer(n) \/ StopDisconnect(n)
                       \/ StopDelPeer(n) \/ Candidate(n) \/ TaskEnds(n)
    \/ \E n \in Node, d \in Direction :
           \/ SetupFails(n, d) \/ CheckpointPostHandshake(n, d) \/ CheckpointAddPeer(n, d)
    \/ TellAdded \/ TellRemoved \/ RemoveOp \/ RemoveQuits \/ RemoveStaticNode
    \/ RemoveDisconnect \/ RemoveEvent \/ Stop \/ RunBreaks \/ StopDialer \/ Stopped
    \/ \E i \in DOMAIN staticPool : LaunchStatic(i)
    \/ LoopRuns

Spec == Init /\ [][Next]_vars

\* The main loop waits for the scheduler.
Rendezvous == TellAdded \/ TellRemoved \/ RemoveStaticNode \/ StopDialer

\* Goroutines run.  A handshake ends, by its deadline if not otherwise.  The
\* select of the scheduler's loop chooses at random, so that it cannot pass
\* over the main loop for ever: strong fairness of Rendezvous.
FairSpec ==
    /\ Spec
    /\ SF_vars(Rendezvous)
    /\ SF_vars(RunBreaks) /\ WF_vars(RemoveDisconnect) /\ WF_vars(Stopped)
    /\ WF_vars(RemoveQuits) /\ WF_vars(RemoveEvent) /\ WF_vars(Listen /\ UNCHANGED serverVars)
    /\ WF_vars(ExpireReturn /\ UNCHANGED serverVars) /\ WF_vars(LoopExit /\ UNCHANGED serverVars)
    /\ WF_vars(\E i \in DOMAIN staticPool : LaunchStatic(i))
    /\ \A n \in Node :
           /\ WF_vars(SendAdd(n)) /\ WF_vars(SendDrop(n)) /\ WF_vars(StopDisconnect(n))
           /\ WF_vars(StopDelPeer(n)) /\ WF_vars(Dialed(n)) /\ WF_vars(TaskEnds(n))
           /\ \A d \in Direction : WF_vars(SetupFails(n, d))

-----------------------------------------------------------------------------
(* Properties                                                              *)

\* Between two events of the main loop the scheduler knows exactly its peers,
\* and both counters are the number of peers they count, so that slots are
\* neither lost nor invented over any number of connections.
PeersAgree ==
    srv = "select" =>
        /\ peers = Peers
        /\ dialPeers = Cardinality({n \in Peers : peer[n].dir = "out"})
        /\ inboundCount = Cardinality({n \in Peers : peer[n].dir = "in"})

\* However many connections passed the first check at the same time, the
\* limits hold for the peers that need a slot.
LimitsKept ==
    /\ Cardinality(Peers \ Trusted) <= MaxPeers
    /\ Cardinality({n \in Peers \ Trusted : peer[n].dir = "in"}) <= MaxInbound

\* Stop returns, once it has disconnected every peer and the scheduler has
\* waited for its tasks, as long as nobody calls RemovePeer.
StopReturns == [](remove = "idle") => (quit ~> srv = "stopped")

=============================================================================
