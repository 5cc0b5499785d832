------------------------------ MODULE PeerRun ------------------------------
(***************************************************************************)
(* p2p/peer.go: one connection.  Peer.run starts a read loop, a ping loop  *)
(* and the handlers of the subprotocols, lets one of these write at a time *)
(* by passing a token, and shuts everything down at the first error.       *)
(*                                                                         *)
(* Every goroutine has a program counter; a step is one channel operation, *)
(* one read or one write of the connection.  Messages are their kind; a    *)
(* handler reads, writes and returns as it likes.                          *)
(***************************************************************************)
EXTENDS Integers, FiniteSets

CONSTANTS
  Proto,     \* running subprotocols
  Ping,      \* the ping loop, as a sender on protoErr
  Caller,    \* calls of Disconnect
  PingCap    \* capacity of pingRecv

ASSUME ProtoAssumption == /\ IsFiniteSet(Proto) /\ Ping \notin Proto
                          /\ Proto \cap {"read", "ping", "report", "done"} = {}
ASSUME PingAssumption == PingCap \in Nat \ {0}

VARIABLES
  run,          \* Peer.run
  reader,       \* readLoop, with the message it handles
  pinger,       \* pingLoop
  proto,        \* handlers of the subprotocols
  caller,       \* calls of Disconnect
  writeStart,   \* tokens in the channel
  writeErr,     \* channel of capacity 1
  readErr,      \* channel of capacity 1
  protoErr,     \* channel: the goroutines whose error is in it
  pingRecv,     \* number of pings in the channel
  closed,       \* p.closed is closed
  conn,         \* the network connection
  cause         \* why run left its loop

vars == <<run, reader, pinger, proto, caller, writeStart, writeErr, readErr, protoErr,
          pingRecv, closed, conn, cause>>

Result      == {"none", "ok", "fail"}
RunState    == {"loop", "grant", "break", "closing", "waiting", "returned"}
ReaderState == {"read", "ping", "report", "done"} \cup Proto
PingState   == {"idle", "pinging", "ponging", "report", "done"}
ProtoState  == {"run", "reading", "waiting", "writing", "wrote", "failed", "report", "done"}

TypeOK ==
  /\ run \in RunState /\ reader \in [at : ReaderState, err : {"none", "net", "disc"}]
  /\ pinger \in PingState
  /\ proto \in [Proto -> ProtoState]
  /\ caller \in [Caller -> {"idle", "calling", "returned"}]
  /\ writeStart \in {0, 1} /\ writeErr \in Result /\ readErr \in {"none", "net", "disc"}
  /\ protoErr \subseteq Proto \cup {Ping} /\ pingRecv \in 0..PingCap
  /\ closed \in BOOLEAN /\ (closed <=> run \in {"closing", "waiting", "returned"})
  /\ conn = IF run \in {"waiting", "returned"} THEN "closed" ELSE "open"
  /\ cause \in {"none", "write", "net", "disc", "protocol", "local"}

\* newPeer, and run up to its loop.
Init ==
  /\ run = "loop" /\ reader = [at |-> "read", err |-> "none"] /\ pinger = "idle"
  /\ proto = [q \in Proto |-> "run"] /\ caller = [d \in Caller |-> "idle"]
  /\ writeStart = 1 /\ writeErr = "none" /\ readErr = "none" /\ protoErr = {}
  /\ pingRecv = 0 /\ closed = FALSE /\ conn = "open" /\ cause = "none"

\* The capacity of protoErr: protocols + pingLoop.
ProtoErrCap == Cardinality(Proto) + 1

-----------------------------------------------------------------------------
(* Peer.run *)

\* A write finished: the next one may start if there was no error.
BugRunWrite ==
  /\ run = "loop" /\ writeErr # "none" /\ writeErr' = "none"
  /\ IF writeErr = "fail" THEN run' = "break" /\ cause' = "write" ELSE run' = "loop" /\ UNCHANGED cause
  /\ writeStart' = 1
  /\ UNCHANGED <<reader, pinger, proto, caller, readErr, protoErr, pingRecv, closed, conn>>
RunWrite ==
  /\ run = "loop" /\ writeErr # "none" /\ writeErr' = "none"
  /\ IF writeErr = "fail" THEN run' = "break" /\ cause' = "write" ELSE run' = "grant" /\ UNCHANGED cause
  /\ UNCHANGED <<reader, pinger, proto, caller, writeStart, readErr, protoErr, pingRecv, closed, conn>>

RunGrant ==
  /\ run = "grant" /\ writeStart = 0
  /\ run' = "loop" /\ writeStart' = 1
  /\ UNCHANGED <<reader, pinger, proto, caller, writeErr, readErr, protoErr, pingRecv, closed, conn, cause>>

RunRead ==
  /\ run = "loop" /\ readErr # "none"
  /\ run' = "break" /\ cause' = readErr /\ readErr' = "none"
  /\ UNCHANGED <<reader, pinger, proto, caller, writeStart, writeErr, protoErr, pingRecv, closed, conn>>

RunProto(x) ==
  /\ run = "loop" /\ x \in protoErr
  /\ run' = "break" /\ cause' = "protocol" /\ protoErr' = protoErr \ {x}
  /\ UNCHANGED <<reader, pinger, proto, caller, writeStart, writeErr, readErr, pingRecv, closed, conn>>

RunDisc(d) ==
  /\ run = "loop" /\ caller[d] = "calling"
  /\ run' = "break" /\ cause' = "local" /\ caller' = [caller EXCEPT ![d] = "returned"]
  /\ UNCHANGED <<reader, pinger, proto, writeStart, writeErr, readErr, protoErr, pingRecv, closed, conn>>

BugClose ==
  /\ run = "break" /\ run' = "closing"
  /\ UNCHANGED <<reader, pinger, proto, caller, writeStart, writeErr, readErr, protoErr, pingRecv, closed, conn, cause>>
Close ==
  /\ run = "break" /\ run' = "closing" /\ closed' = TRUE
  /\ UNCHANGED <<reader, pinger, proto, caller, writeStart, writeErr, readErr, protoErr, pingRecv, conn, cause>>

CloseConn ==
  /\ run = "closing" /\ run' = "waiting" /\ conn' = "closed"
  /\ UNCHANGED <<reader, pinger, proto, caller, writeStart, writeErr, readErr, protoErr, pingRecv, closed, cause>>

\* wg.Wait
AllDone == reader.at = "done" /\ pinger = "done" /\ \A q \in Proto : proto[q] = "done"
RunReturn ==
  /\ run = "waiting" /\ AllDone /\ run' = "returned"
  /\ UNCHANGED <<reader, pinger, proto, caller, writeStart, writeErr, readErr, protoErr, pingRecv, closed, conn, cause>>

RunNext == RunWrite \/ RunGrant \/ RunRead \/ (\E x \in Proto \cup {Ping} : RunProto(x)) \/ Close \/ CloseConn \/ RunReturn

-----------------------------------------------------------------------------
(* readLoop and handle *)
ReaderOnly == UNCHANGED <<run, pinger, caller, writeStart, writeErr, protoErr, closed, conn, cause>>

\* A message arrives: a ping, one for a subprotocol, or one that is ignored.
ReadMsg(to) ==
  /\ reader.at = "read" /\ conn = "open"
  /\ reader' = [reader EXCEPT !.at = to]
  /\ ReaderOnly /\ UNCHANGED <<proto, readErr, pingRecv>>

\* The remote side disconnects, the message is not valid or the connection is broken.
ReadFails(err) ==
  /\ reader.at = "read" /\ (err = "disc" => conn = "open")
  /\ reader' = [at |-> "report", err |-> err]
  /\ ReaderOnly /\ UNCHANGED <<proto, readErr, pingRecv>>

HandlePing ==
  /\ reader.at = "ping"
  /\ \/ pingRecv < PingCap /\ pingRecv' = pingRecv + 1
     \/ closed /\ UNCHANGED pingRecv
  /\ reader' = [reader EXCEPT !.at = "read"]
  /\ ReaderOnly /\ UNCHANGED <<proto, readErr>>

HandleProto(q) ==
  /\ reader.at = q
  /\ \/ /\ proto[q] = "reading"
        /\ proto' = [proto EXCEPT ![q] = "run"] /\ reader' = [reader EXCEPT !.at = "read"]
     \/ /\ closed /\ UNCHANGED proto
        /\ reader' = [at |-> "report", err |-> "net"]
  /\ ReaderOnly /\ UNCHANGED <<readErr, pingRecv>>

ReaderReport ==
  /\ reader.at = "report" /\ readErr = "none"
  /\ readErr' = reader.err /\ reader' = [reader EXCEPT !.at = "done"]
  /\ ReaderOnly /\ UNCHANGED <<proto, pingRecv>>

-----------------------------------------------------------------------------
(* pingLoop *)
PingerOnly == UNCHANGED <<run, reader, proto, caller, writeStart, writeErr, readErr, closed, conn, cause>>

PingTimer ==
  /\ pinger = "idle" /\ pinger' = "pinging"
  /\ PingerOnly /\ UNCHANGED <<protoErr, pingRecv>>

TakePing ==
  /\ pinger = "idle" /\ pingRecv > 0 /\ pinger' = "ponging" /\ pingRecv' = pingRecv - 1
  /\ PingerOnly /\ UNCHANGED protoErr

\* The write of a ping or a pong ends; the result of a pong is not looked at.
PingWritten ==
  /\ \/ pinger \in {"pinging", "ponging"} /\ conn = "open" /\ pinger' = "idle"
     \/ pinger = "ponging" /\ pinger' = "idle"
     \/ pinger = "pinging" /\ pinger' = "report"
  /\ PingerOnly /\ UNCHANGED <<protoErr, pingRecv>>

PingerReport ==
  /\ pinger = "report" /\ Cardinality(protoErr) < ProtoErrCap
  /\ protoErr' = protoErr \cup {Ping} /\ pinger' = "done"
  /\ PingerOnly /\ UNCHANGED pingRecv

PingerStop ==
  /\ pinger = "idle" /\ closed /\ pinger' = "done"
  /\ PingerOnly /\ UNCHANGED <<protoErr, pingRecv>>

-----------------------------------------------------------------------------
(* Handlers of subprotocols: protoRW.ReadMsg and WriteMsg, and their end. *)
ProtoOnly == UNCHANGED <<run, reader, pinger, caller, readErr, pingRecv, closed, conn, cause>>
Moves(q, from, to) == proto[q] = from /\ proto' = [proto EXCEPT ![q] = to]

StartRead(q)  == Moves(q, "run", "reading") /\ ProtoOnly /\ UNCHANGED <<writeStart, writeErr, protoErr>>
StartWrite(q) == Moves(q, "run", "waiting") /\ ProtoOnly /\ UNCHANGED <<writeStart, writeErr, protoErr>>

\* io.EOF or ErrShuttingDown
ShutDown(q) ==
  /\ closed /\ (Moves(q, "reading", "run") \/ Moves(q, "waiting", "run"))
  /\ ProtoOnly /\ UNCHANGED <<writeStart, writeErr, protoErr>>

BugTakeToken(q) ==
  /\ Moves(q, "waiting", "writing") /\ UNCHANGED writeStart
  /\ ProtoOnly /\ UNCHANGED <<writeErr, protoErr>>
TakeToken(q) ==
  /\ Moves(q, "waiting", "writing") /\ writeStart = 1 /\ writeStart' = 0
  /\ ProtoOnly /\ UNCHANGED <<writeErr, protoErr>>

Written(q) ==
  /\ \/ Moves(q, "writing", "wrote") /\ conn = "open"
     \/ Moves(q, "writing", "failed")
  /\ ProtoOnly /\ UNCHANGED <<writeStart, writeErr, protoErr>>

\* rw.werr <- err
ReportWrite(q) ==
  /\ writeErr = "none"
  /\ \/ Moves(q, "wrote", "run") /\ writeErr' = "ok"
     \/ Moves(q, "failed", "run") /\ writeErr' = "fail"
  /\ ProtoOnly /\ UNCHANGED <<writeStart, protoErr>>

Exit(q) == Moves(q, "run", "report") /\ ProtoOnly /\ UNCHANGED <<writeStart, writeErr, protoErr>>

ProtoReport(q) ==
  /\ Moves(q, "report", "done") /\ Cardinality(protoErr) < ProtoErrCap
  /\ protoErr' = protoErr \cup {q}
  /\ ProtoOnly /\ UNCHANGED <<writeStart, writeErr>>

-----------------------------------------------------------------------------
(* Disconnect *)
CallerOnly == UNCHANGED <<run, reader, pinger, proto, writeStart, writeErr, readErr, protoErr, pingRecv, closed, conn, cause>>

Disconnect(d) ==
  /\ caller[d] = "idle" /\ caller' = [caller EXCEPT ![d] = "calling"] /\ CallerOnly

BugDisconnectClosed(d) == FALSE
DisconnectClosed(d) ==
  /\ caller[d] = "calling" /\ closed /\ caller' = [caller EXCEPT ![d] = "returned"] /\ CallerOnly

\* What a goroutine must do once it can: all but new reads, writes and pings.
ReaderEnds == (conn = "closed" /\ ReadFails("net")) \/ HandlePing \/ (\E q \in Proto : HandleProto(q)) \/ ReaderReport
PingerEnds == PingWritten \/ PingerReport \/ PingerStop
ProtoEnds(q) == ShutDown(q) \/ Written(q) \/ ReportWrite(q) \/ (closed /\ Exit(q)) \/ ProtoReport(q)

Next ==
  \/ RunNext
  \/ \E to \in {"read", "ping"} \cup Proto : ReadMsg(to)
  \/ \E err \in {"net", "disc"} : ReadFails(err)
  \/ HandlePing \/ ReaderReport
  \/ PingTimer \/ TakePing \/ PingWritten \/ PingerReport \/ PingerStop
  \/ \E q \in Proto : \/ HandleProto(q) \/ StartRead(q) \/ StartWrite(q) \/ ShutDown(q) \/ TakeToken(q)
                      \/ Written(q) \/ ReportWrite(q) \/ Exit(q) \/ ProtoReport(q)
  \/ \E d \in Caller : Disconnect(d) \/ RunDisc(d) \/ DisconnectClosed(d)

Spec == Init /\ [][Next]_vars

\* Go runs goroutines that can run and its select picks among ready cases at
\* random; reads and writes of a connection end (it has deadlines).  A handler
\* returns once its reads and writes fail; the ping loop's select, when closed is
\* ready, takes it eventually.
Fairness ==
  /\ WF_vars(RunNext) /\ \A d \in Caller : SF_vars(RunDisc(d)) /\ WF_vars(DisconnectClosed(d))
  /\ WF_vars(ReaderEnds)
  /\ WF_vars(PingerEnds) /\ SF_vars(PingerStop)
  /\ \A q \in Proto : WF_vars(ProtoEnds(q)) /\ SF_vars(closed /\ Exit(q))

FairSpec == Spec /\ Fairness

-----------------------------------------------------------------------------
(* Properties *)
Writing(q) == proto[q] \in {"writing", "wrote", "failed"}

\* One handler writes at a time, and the token is in one place: no second write
\* starts before run has seen the result of the first.
OneWriter ==
  /\ \A q, r \in Proto : Writing(q) /\ Writing(r) => q = r
  /\ \A q \in Proto : Writing(q) => writeStart = 0 /\ writeErr = "none" /\ run # "grant"
  /\ writeErr # "none" => writeStart = 0 /\ run # "grant"

\* Sends on the buffered channels never block their goroutine: of run when it
\* passes the token, of a write result, of the reader's error and of the last
\* error of every handler and the ping loop.
SendsNeverBlock ==
  /\ run = "grant" => writeStart = 0
  /\ \A q \in Proto : Writing(q) => writeErr = "none"
  /\ reader.at = "report" => readErr = "none"
  /\ (pinger = "report" \/ \E q \in Proto : proto[q] = "report") => Cardinality(protoErr) < ProtoErrCap

\* After a failed write no other handler starts to write.
NoWriteAfterFailure ==
  [][(writeErr = "fail" \/ cause = "write" \/ \E q \in Proto : proto[q] = "failed") =>
       \A q \in Proto : proto'[q] = "writing" => proto[q] = "writing"]_vars

\* A shutdown ends: every goroutine of the connection stops and run returns.
ShutdownEnds == []<>(cause = "none" \/ run = "returned")

\* Disconnect "returns immediately and does not wait until the connection is
\* closed" (p2p/peer.go:204-205): at least it always returns.
DisconnectReturns == \A d \in Caller : []<>(caller[d] # "calling")
=============================================================================
