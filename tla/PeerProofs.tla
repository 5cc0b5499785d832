----------------------------- MODULE PeerProofs -----------------------------
(***************************************************************************)
(* Proofs about PeerRun, for any set of subprotocols and callers, and      *)
(* about PeerMatch, for any sets of protocols and any lengths.             *)
(*                                                                         *)
(* PeerRun: the write token is in one of four places or lost to a failed   *)
(* write, and whoever has an error in protoErr is done: so at most         *)
(* protocols and ping loop minus one are in the channel while one of them  *)
(* still has to send.                                                      *)
(*                                                                         *)
(* PeerMatch: the running protocols share out the codes, and the two sides *)
(* agree, because what runs on both starts at the same code on both.       *)
(***************************************************************************)
EXTENDS PeerRun, PeerMatch, FiniteSetTheorems, TLAPS

-----------------------------------------------------------------------------
(* The goroutines of a connection                                          *)

\* Where the token is, and that it is gone after a failed write.
TokenInv ==
  /\ OneWriter
  /\ run = "grant" => writeStart = 0
  /\ writeErr = "fail" \/ (\E q \in Proto : proto[q] = "failed") => writeStart = 0
  /\ cause = "write" => /\ writeStart = 0 /\ writeErr = "none" /\ run \notin {"loop", "grant"}
                        /\ \A q \in Proto : ~Writing(q)

\* The reader reports once, handlers and the ping loop report once.
ReportInv ==
  /\ reader.at # "done" => readErr = "none"
  /\ \A q \in Proto : q \in protoErr => proto[q] = "done"
  /\ Ping \in protoErr => pinger = "done"

IInv == TypeOK /\ TokenInv /\ ReportInv

\* Init establishes the invariant.
LEMMA InitIInv == Init => IInv
<1> SUFFICES ASSUME Init PROVE IInv
  OBVIOUS
<1>1. closed \in BOOLEAN /\ (closed <=> run \in {"closing", "waiting", "returned"})
  BY Zenon DEF Init
<1>2. TypeOK
  BY <1>1, PingAssumption DEF Init, TypeOK, RunState, ReaderState, PingState, ProtoState, Result
<1>3. TokenInv /\ ReportInv
  BY DEF Init, TokenInv, OneWriter, Writing, ReportInv
<1> QED BY <1>2, <1>3 DEF IInv

\* Every step keeps the types.
LEMMA TypeKept ==
  ASSUME TypeOK, [Next]_vars
  PROVE  TypeOK'
<1>1. CASE RunWrite
  BY <1>1, ProtoAssumption, PingAssumption DEF RunWrite, TypeOK, RunState, ReaderState, PingState, ProtoState, Result
<1>2. CASE RunGrant
  BY <1>2, ProtoAssumption, PingAssumption DEF RunGrant, TypeOK, RunState, ReaderState, PingState, ProtoState, Result
<1>3. CASE RunRead
  BY <1>3, ProtoAssumption, PingAssumption DEF RunRead, TypeOK, RunState, ReaderState, PingState, ProtoState, Result
<1>4. CASE Close
  <2>1. closed' \in BOOLEAN /\ (closed' <=> run' \in {"closing", "waiting", "returned"})
    BY <1>4, Zenon DEF Close
  <2>2. conn' = IF run' \in {"waiting", "returned"} THEN "closed" ELSE "open"
    BY <1>4 DEF Close, TypeOK
  <2> QED BY <1>4, <2>1, <2>2 DEF Close, TypeOK, RunState
<1>5. CASE CloseConn
  BY <1>5, ProtoAssumption, PingAssumption DEF CloseConn, TypeOK, RunState, ReaderState, PingState, ProtoState, Result
<1>6. CASE RunReturn
  BY <1>6, ProtoAssumption, PingAssumption DEF RunReturn, TypeOK, RunState, ReaderState, PingState, ProtoState, Result
<1>7. CASE HandlePing
  BY <1>7, ProtoAssumption, PingAssumption DEF HandlePing, ReaderOnly, TypeOK, RunState, ReaderState, PingState, ProtoState, Result
<1>8. CASE ReaderReport
  BY <1>8, ProtoAssumption, PingAssumption DEF ReaderReport, ReaderOnly, TypeOK, RunState, ReaderState, PingState, ProtoState, Result
<1>9. CASE PingTimer
  BY <1>9, ProtoAssumption, PingAssumption DEF PingTimer, PingerOnly, TypeOK, RunState, ReaderState, PingState, ProtoState, Result
<1>10. CASE TakePing
  BY <1>10, ProtoAssumption, PingAssumption DEF TakePing, PingerOnly, TypeOK, RunState, ReaderState, PingState, ProtoState, Result
<1>11. CASE PingWritten
  BY <1>11, ProtoAssumption, PingAssumption DEF PingWritten, PingerOnly, TypeOK, RunState, ReaderState, PingState, ProtoState, Result
<1>12. CASE PingerReport
  BY <1>12, ProtoAssumption, PingAssumption DEF PingerReport, PingerOnly, TypeOK, RunState, ReaderState, PingState, ProtoState, Result
<1>13. CASE PingerStop
  BY <1>13, ProtoAssumption, PingAssumption DEF PingerStop, PingerOnly, TypeOK, RunState, ReaderState, PingState, ProtoState, Result
<1>14. ASSUME NEW x \in Proto \cup {Ping}, RunProto(x) PROVE TypeOK'
  BY <1>14, ProtoAssumption, PingAssumption DEF RunProto, TypeOK, RunState, ReaderState, PingState, ProtoState, Result
<1>15. ASSUME NEW to \in {"read", "ping"} \cup Proto, ReadMsg(to) PROVE TypeOK'
  BY <1>15, ProtoAssumption, PingAssumption DEF ReadMsg, ReaderOnly, TypeOK, RunState, ReaderState, PingState, ProtoState, Result
<1>16. ASSUME NEW err \in {"net", "disc"}, ReadFails(err) PROVE TypeOK'
  BY <1>16, ProtoAssumption, PingAssumption DEF ReadFails, ReaderOnly, TypeOK, RunState, ReaderState, PingState, ProtoState, Result
<1>17. ASSUME NEW q \in Proto, HandleProto(q) PROVE TypeOK'
  BY <1>17, ProtoAssumption, PingAssumption DEF HandleProto, ReaderOnly, TypeOK, RunState, ReaderState, PingState, ProtoState, Result
<1>18. ASSUME NEW q \in Proto, StartRead(q) PROVE TypeOK'
  BY <1>18, ProtoAssumption, PingAssumption DEF StartRead, ProtoOnly, Moves, TypeOK, RunState, ReaderState, PingState, ProtoState, Result
<1>19. ASSUME NEW q \in Proto, StartWrite(q) PROVE TypeOK'
  BY <1>19, ProtoAssumption, PingAssumption DEF StartWrite, ProtoOnly, Moves, TypeOK, RunState, ReaderState, PingState, ProtoState, Result
<1>20. ASSUME NEW q \in Proto, ShutDown(q) PROVE TypeOK'
  <2>1. proto' = [proto EXCEPT ![q] = "run"] /\ ProtoOnly /\ UNCHANGED <<writeStart, writeErr, protoErr>>
    BY <1>20, Zenon DEF ShutDown, Moves
  <2> QED BY <2>1 DEF ProtoOnly, TypeOK, ProtoState
<1>21. ASSUME NEW q \in Proto, TakeToken(q) PROVE TypeOK'
  BY <1>21, ProtoAssumption, PingAssumption DEF TakeToken, ProtoOnly, Moves, TypeOK, RunState, ReaderState, PingState, ProtoState, Result
<1>22. ASSUME NEW q \in Proto, Written(q) PROVE TypeOK'
  BY <1>22, ProtoAssumption, PingAssumption DEF Written, ProtoOnly, Moves, TypeOK, RunState, ReaderState, PingState, ProtoState, Result
<1>23. ASSUME NEW q \in Proto, ReportWrite(q) PROVE TypeOK'
  BY <1>23, ProtoAssumption, PingAssumption DEF ReportWrite, ProtoOnly, Moves, TypeOK, RunState, ReaderState, PingState, ProtoState, Result
<1>24. ASSUME NEW q \in Proto, Exit(q) PROVE TypeOK'
  BY <1>24, ProtoAssumption, PingAssumption DEF Exit, ProtoOnly, Moves, TypeOK, RunState, ReaderState, PingState, ProtoState, Result
<1>25. ASSUME NEW q \in Proto, ProtoReport(q) PROVE TypeOK'
  BY <1>25, ProtoAssumption, PingAssumption DEF ProtoReport, ProtoOnly, Moves, TypeOK, RunState, ReaderState, PingState, ProtoState, Result
<1>26. ASSUME NEW d \in Caller, Disconnect(d) PROVE TypeOK'
  BY <1>26, ProtoAssumption, PingAssumption DEF Disconnect, CallerOnly, TypeOK, RunState, ReaderState, PingState, ProtoState, Result
<1>27. ASSUME NEW d \in Caller, RunDisc(d) PROVE TypeOK'
  BY <1>27, ProtoAssumption, PingAssumption DEF RunDisc, TypeOK, RunState, ReaderState, PingState, ProtoState, Result
<1>28. ASSUME NEW d \in Caller, DisconnectClosed(d) PROVE TypeOK'
  <2>1. caller' = [caller EXCEPT ![d] = "returned"] /\ CallerOnly
    BY <1>28, Zenon DEF DisconnectClosed
  <2> QED BY <2>1 DEF CallerOnly, TypeOK
<1>29. CASE UNCHANGED vars
  BY <1>29, ProtoAssumption, PingAssumption DEF vars, TypeOK, RunState, ReaderState, PingState, ProtoState, Result
<1> QED BY <1>1, <1>2, <1>3, <1>4, <1>5, <1>6, <1>7, <1>8, <1>9, <1>10, <1>11, <1>12, <1>13, 
       <1>14, <1>15, <1>16, <1>17, <1>18, <1>19, <1>20, <1>21, <1>22, <1>23, <1>24, <1>25, 
       <1>26, <1>27, <1>28, <1>29 DEF Next, RunNext

\* Every step passes the token on, or loses it to an error.
LEMMA TokenKept ==
  ASSUME TypeOK, TokenInv, [Next]_vars
  PROVE  TokenInv'
<1>1. CASE RunWrite
  BY <1>1 DEF RunWrite, TypeOK, ProtoState, Result, TokenInv, OneWriter, Writing
<1>2. CASE RunGrant
  BY <1>2 DEF RunGrant, TypeOK, ProtoState, Result, TokenInv, OneWriter, Writing
<1>3. CASE RunRead
  BY <1>3 DEF RunRead, TypeOK, ProtoState, Result, TokenInv, OneWriter, Writing
<1>4. CASE Close
  BY <1>4 DEF Close, TypeOK, ProtoState, Result, TokenInv, OneWriter, Writing
<1>5. CASE CloseConn
  BY <1>5 DEF CloseConn, TypeOK, ProtoState, Result, TokenInv, OneWriter, Writing
<1>6. CASE RunReturn
  BY <1>6 DEF RunReturn, TypeOK, ProtoState, Result, TokenInv, OneWriter, Writing
<1>7. CASE HandlePing
  BY <1>7 DEF HandlePing, ReaderOnly, TypeOK, ProtoState, Result, TokenInv, OneWriter, Writing
<1>8. CASE ReaderReport
  BY <1>8 DEF ReaderReport, ReaderOnly, TypeOK, ProtoState, Result, TokenInv, OneWriter, Writing
<1>9. CASE PingTimer
  BY <1>9 DEF PingTimer, PingerOnly, TypeOK, ProtoState, Result, TokenInv, OneWriter, Writing
<1>10. CASE TakePing
  BY <1>10 DEF TakePing, PingerOnly, TypeOK, ProtoState, Result, TokenInv, OneWriter, Writing
<1>11. CASE PingWritten
  BY <1>11 DEF PingWritten, PingerOnly, TypeOK, ProtoState, Result, TokenInv, OneWriter, Writing
<1>12. CASE PingerReport
  BY <1>12 DEF PingerReport, PingerOnly, TypeOK, ProtoState, Result, TokenInv, OneWriter, Writing
<1>13. CASE PingerStop
  BY <1>13 DEF PingerStop, PingerOnly, TypeOK, ProtoState, Result, TokenInv, OneWriter, Writing
<1>14. ASSUME NEW x \in Proto \cup {Ping}, RunProto(x) PROVE TokenInv'
  BY <1>14 DEF RunProto, TypeOK, ProtoState, Result, TokenInv, OneWriter, Writing
<1>15. ASSUME NEW to \in {"read", "ping"} \cup Proto, ReadMsg(to) PROVE TokenInv'
  BY <1>15 DEF ReadMsg, ReaderOnly, TypeOK, ProtoState, Result, TokenInv, OneWriter, Writing
<1>16. ASSUME NEW err \in {"net", "disc"}, ReadFails(err) PROVE TokenInv'
  BY <1>16 DEF ReadFails, ReaderOnly, TypeOK, ProtoState, Result, TokenInv, OneWriter, Writing
<1>17. ASSUME NEW q \in Proto, HandleProto(q) PROVE TokenInv'
  BY <1>17 DEF HandleProto, ReaderOnly, TypeOK, ProtoState, Result, TokenInv, OneWriter, Writing
<1>18. ASSUME NEW q \in Proto, StartRead(q) PROVE TokenInv'
  BY <1>18 DEF StartRead, ProtoOnly, Moves, TypeOK, ProtoState, Result, TokenInv, OneWriter, Writing
<1>19. ASSUME NEW q \in Proto, StartWrite(q) PROVE TokenInv'
  BY <1>19 DEF StartWrite, ProtoOnly, Moves, TypeOK, ProtoState, Result, TokenInv, OneWriter, Writing
<1>20. ASSUME NEW q \in Proto, ShutDown(q) PROVE TokenInv'
  BY <1>20 DEF ShutDown, ProtoOnly, Moves, TypeOK, ProtoState, Result, TokenInv, OneWriter, Writing
<1>21. ASSUME NEW q \in Proto, TakeToken(q) PROVE TokenInv'
  BY <1>21 DEF TakeToken, ProtoOnly, Moves, TypeOK, ProtoState, Result, TokenInv, OneWriter, Writing
<1>22. ASSUME NEW q \in Proto, Written(q) PROVE TokenInv'
  BY <1>22 DEF Written, ProtoOnly, Moves, TypeOK, ProtoState, Result, TokenInv, OneWriter, Writing
<1>23. ASSUME NEW q \in Proto, ReportWrite(q) PROVE TokenInv'
  BY <1>23 DEF ReportWrite, ProtoOnly, Moves, TypeOK, ProtoState, Result, TokenInv, OneWriter, Writing
<1>24. ASSUME NEW q \in Proto, Exit(q) PROVE TokenInv'
  BY <1>24 DEF Exit, ProtoOnly, Moves, TypeOK, ProtoState, Result, TokenInv, OneWriter, Writing
<1>25. ASSUME NEW q \in Proto, ProtoReport(q) PROVE TokenInv'
  BY <1>25 DEF ProtoReport, ProtoOnly, Moves, TypeOK, ProtoState, Result, TokenInv, OneWriter, Writing
<1>26. ASSUME NEW d \in Caller, Disconnect(d) PROVE TokenInv'
  BY <1>26 DEF Disconnect, CallerOnly, TypeOK, ProtoState, Result, TokenInv, OneWriter, Writing
<1>27. ASSUME NEW d \in Caller, RunDisc(d) PROVE TokenInv'
  BY <1>27 DEF RunDisc, TypeOK, ProtoState, Result, TokenInv, OneWriter, Writing
<1>28. ASSUME NEW d \in Caller, DisconnectClosed(d) PROVE TokenInv'
  BY <1>28 DEF DisconnectClosed, CallerOnly, TypeOK, ProtoState, Result, TokenInv, OneWriter, Writing
<1>29. CASE UNCHANGED vars
  BY <1>29 DEF vars, TypeOK, ProtoState, Result, TokenInv, OneWriter, Writing
<1> QED BY <1>1, <1>2, <1>3, <1>4, <1>5, <1>6, <1>7, <1>8, <1>9, <1>10, <1>11, <1>12, <1>13, 
       <1>14, <1>15, <1>16, <1>17, <1>18, <1>19, <1>20, <1>21, <1>22, <1>23, <1>24, <1>25, 
       <1>26, <1>27, <1>28, <1>29 DEF Next, RunNext

\* Every step keeps reports to the channels unique.
LEMMA ReportKept ==
  ASSUME TypeOK, ReportInv, [Next]_vars
  PROVE  ReportInv'
<1>1. CASE RunWrite
  BY <1>1, ProtoAssumption DEF RunWrite, TypeOK, ReaderState, ProtoState, ReportInv
<1>2. CASE RunGrant
  BY <1>2, ProtoAssumption DEF RunGrant, TypeOK, ReaderState, ProtoState, ReportInv
<1>3. CASE RunRead
  BY <1>3, ProtoAssumption DEF RunRead, TypeOK, ReaderState, ProtoState, ReportInv
<1>4. CASE Close
  BY <1>4, ProtoAssumption DEF Close, TypeOK, ReaderState, ProtoState, ReportInv
<1>5. CASE CloseConn
  BY <1>5, ProtoAssumption DEF CloseConn, TypeOK, ReaderState, ProtoState, ReportInv
<1>6. CASE RunReturn
  BY <1>6, ProtoAssumption DEF RunReturn, TypeOK, ReaderState, ProtoState, ReportInv
<1>7. CASE HandlePing
  BY <1>7, ProtoAssumption DEF HandlePing, ReaderOnly, TypeOK, ReaderState, ProtoState, ReportInv
<1>8. CASE ReaderReport
  BY <1>8, ProtoAssumption DEF ReaderReport, ReaderOnly, TypeOK, ReaderState, ProtoState, ReportInv
<1>9. CASE PingTimer
  BY <1>9, ProtoAssumption DEF PingTimer, PingerOnly, TypeOK, ReaderState, ProtoState, ReportInv
<1>10. CASE TakePing
  BY <1>10, ProtoAssumption DEF TakePing, PingerOnly, TypeOK, ReaderState, ProtoState, ReportInv
<1>11. CASE PingWritten
  BY <1>11, ProtoAssumption DEF PingWritten, PingerOnly, TypeOK, ReaderState, ProtoState, ReportInv
<1>12. CASE PingerReport
  BY <1>12, ProtoAssumption DEF PingerReport, PingerOnly, TypeOK, ReaderState, ProtoState, ReportInv
<1>13. CASE PingerStop
  BY <1>13, ProtoAssumption DEF PingerStop, PingerOnly, TypeOK, ReaderState, ProtoState, ReportInv
<1>14. ASSUME NEW x \in Proto \cup {Ping}, RunProto(x) PROVE ReportInv'
  BY <1>14, ProtoAssumption DEF RunProto, TypeOK, ReaderState, ProtoState, ReportInv
<1>15. ASSUME NEW to \in {"read", "ping"} \cup Proto, ReadMsg(to) PROVE ReportInv'
  BY <1>15, ProtoAssumption DEF ReadMsg, ReaderOnly, TypeOK, ReaderState, ProtoState, ReportInv
<1>16. ASSUME NEW err \in {"net", "disc"}, ReadFails(err) PROVE ReportInv'
  BY <1>16, ProtoAssumption DEF ReadFails, ReaderOnly, TypeOK, ReaderState, ProtoState, ReportInv
<1>17. ASSUME NEW q \in Proto, HandleProto(q) PROVE ReportInv'
  <2>1. CASE proto[q] = "reading" /\ proto' = [proto EXCEPT ![q] = "run"] /\ reader' = [reader EXCEPT !.at = "read"]
    BY <1>17, <2>1, ProtoAssumption DEF HandleProto, ReaderOnly, TypeOK, ProtoState, ReportInv
  <2>2. CASE UNCHANGED proto /\ reader' = [at |-> "report", err |-> "net"]
    BY <1>17, <2>2, ProtoAssumption DEF HandleProto, ReaderOnly, TypeOK, ReportInv
  <2>3. \/ proto[q] = "reading" /\ proto' = [proto EXCEPT ![q] = "run"] /\ reader' = [reader EXCEPT !.at = "read"]
        \/ UNCHANGED proto /\ reader' = [at |-> "report", err |-> "net"]
    BY <1>17, Zenon DEF HandleProto
  <2> QED BY <2>1, <2>2, <2>3
<1>18. ASSUME NEW q \in Proto, StartRead(q) PROVE ReportInv'
  BY <1>18, ProtoAssumption DEF StartRead, ProtoOnly, Moves, TypeOK, ReaderState, ProtoState, ReportInv
<1>19. ASSUME NEW q \in Proto, StartWrite(q) PROVE ReportInv'
  BY <1>19, ProtoAssumption DEF StartWrite, ProtoOnly, Moves, TypeOK, ReaderState, ProtoState, ReportInv
<1>20. ASSUME NEW q \in Proto, ShutDown(q) PROVE ReportInv'
  BY <1>20, ProtoAssumption DEF ShutDown, ProtoOnly, Moves, TypeOK, ReaderState, ProtoState, ReportInv
<1>21. ASSUME NEW q \in Proto, TakeToken(q) PROVE ReportInv'
  BY <1>21, ProtoAssumption DEF TakeToken, ProtoOnly, Moves, TypeOK, ReaderState, ProtoState, ReportInv
<1>22. ASSUME NEW q \in Proto, Written(q) PROVE ReportInv'
  BY <1>22, ProtoAssumption DEF Written, ProtoOnly, Moves, TypeOK, ReaderState, ProtoState, ReportInv
<1>23. ASSUME NEW q \in Proto, ReportWrite(q) PROVE ReportInv'
  BY <1>23, ProtoAssumption DEF ReportWrite, ProtoOnly, Moves, TypeOK, ReaderState, ProtoState, ReportInv
<1>24. ASSUME NEW q \in Proto, Exit(q) PROVE ReportInv'
  BY <1>24, ProtoAssumption DEF Exit, ProtoOnly, Moves, TypeOK, ReaderState, ProtoState, ReportInv
<1>25. ASSUME NEW q \in Proto, ProtoReport(q) PROVE ReportInv'
  BY <1>25, ProtoAssumption DEF ProtoReport, ProtoOnly, Moves, TypeOK, ReaderState, ProtoState, ReportInv
<1>26. ASSUME NEW d \in Caller, Disconnect(d) PROVE ReportInv'
  BY <1>26, ProtoAssumption DEF Disconnect, CallerOnly, TypeOK, ReaderState, ProtoState, ReportInv
<1>27. ASSUME NEW d \in Caller, RunDisc(d) PROVE ReportInv'
  BY <1>27, ProtoAssumption DEF RunDisc, TypeOK, ReaderState, ProtoState, ReportInv
<1>28. ASSUME NEW d \in Caller, DisconnectClosed(d) PROVE ReportInv'
  BY <1>28, ProtoAssumption DEF DisconnectClosed, CallerOnly, TypeOK, ReaderState, ProtoState, ReportInv
<1>29. CASE UNCHANGED vars
  BY <1>29, ProtoAssumption DEF vars, TypeOK, ReaderState, ProtoState, ReportInv
<1> QED BY <1>1, <1>2, <1>3, <1>4, <1>5, <1>6, <1>7, <1>8, <1>9, <1>10, <1>11, <1>12, <1>13, 
       <1>14, <1>15, <1>16, <1>17, <1>18, <1>19, <1>20, <1>21, <1>22, <1>23, <1>24, <1>25, 
       <1>26, <1>27, <1>28, <1>29 DEF Next, RunNext

\* Every step keeps the invariant.
LEMMA NextIInv == IInv /\ [Next]_vars => IInv'
  BY TypeKept, TokenKept, ReportKept DEF IInv

-----------------------------------------------------------------------------
\* The inductive invariant holds in every behaviour of a connection.
THEOREM Invariance == Spec => []IInv
  BY InitIInv, NextIInv, PTL DEF Spec

\* Type correctness, with the order of the shutdown.
THEOREM TypeCorrect == Spec => []TypeOK
<1>1. IInv => TypeOK
  BY DEF IInv
<1> QED BY <1>1, Invariance, PTL

\* One subprotocol writes at a time, whatever their number.
THEOREM WritesExclusive == Spec => []OneWriter
<1>1. IInv => OneWriter
  BY DEF IInv, TokenInv
<1> QED BY <1>1, Invariance, PTL

\* A proper part of the senders fits the channel with room for one more.
LEMMA RoomForOne ==
  ASSUME NEW S \in SUBSET (Proto \cup {Ping}), NEW x \in Proto \cup {Ping}, x \notin S
  PROVE  Cardinality(S) < ProtoErrCap
<1>1. IsFiniteSet(Proto) /\ Ping \notin Proto
  BY ProtoAssumption
<1>2. IsFiniteSet(Proto \cup {Ping}) /\ Cardinality(Proto \cup {Ping}) = Cardinality(Proto) + 1
  BY <1>1, FS_AddElement
<1>3. IsFiniteSet(S)
  BY <1>2, FS_Subset
<1>4. IsFiniteSet(S \cup {x}) /\ Cardinality(S \cup {x}) = Cardinality(S) + 1
  BY <1>3, FS_AddElement
<1>5. Cardinality(S \cup {x}) <= Cardinality(Proto \cup {Ping})
  BY <1>2, FS_Subset
<1>6. Cardinality(S) \in Nat /\ Cardinality(Proto) \in Nat
  BY <1>1, <1>3, FS_CardinalityType
<1> QED BY <1>2, <1>4, <1>5, <1>6 DEF ProtoErrCap

\* No goroutine ever blocks on a buffered channel of the connection, so that each
\* can reach its end once the connection is closed.
THEOREM NeverBlocked == Spec => []SendsNeverBlock
<1>1. IInv => SendsNeverBlock
  <2> SUFFICES ASSUME IInv PROVE SendsNeverBlock
    OBVIOUS
  <2>1. /\ run = "grant" => writeStart = 0
        /\ \A q \in Proto : Writing(q) => writeErr = "none"
    BY DEF IInv, TokenInv, OneWriter
  <2>2. reader.at = "report" => readErr = "none"
    BY DEF IInv, ReportInv
  <2>3. protoErr \in SUBSET (Proto \cup {Ping})
    BY DEF IInv, TypeOK
  <2>4. ASSUME pinger = "report" PROVE Cardinality(protoErr) < ProtoErrCap
    <3>1. Ping \notin protoErr
      BY <2>4 DEF IInv, ReportInv
    <3> QED BY <2>3, <3>1, RoomForOne
  <2>5. ASSUME NEW q \in Proto, proto[q] = "report" PROVE Cardinality(protoErr) < ProtoErrCap
    <3>1. q \notin protoErr
      BY <2>5 DEF IInv, ReportInv
    <3> QED BY <2>3, <3>1, RoomForOne
  <2> QED BY <2>1, <2>2, <2>4, <2>5 DEF SendsNeverBlock
<1> QED BY <1>1, Invariance, PTL

\* A failed write is the last one.
THEOREM FailureIsLast == Spec => NoWriteAfterFailure
<1> DEFINE Failed == writeErr = "fail" \/ cause = "write" \/ \E q \in Proto : proto[q] = "failed"
           Keeps  == Failed => \A q \in Proto : proto'[q] = "writing" => proto[q] = "writing"
<1>1. IInv /\ [Next]_vars => [Keeps]_vars
  <2> SUFFICES ASSUME IInv, Next, Failed, NEW q \in Proto, proto'[q] = "writing", proto[q] # "writing"
               PROVE  FALSE
    OBVIOUS
  <2>1. writeStart = 0
    BY DEF IInv, TokenInv
  <2>2. \A r \in Proto : ~TakeToken(r)
    BY <2>1 DEF TakeToken
  <2>3. proto' = proto \/ \E r \in Proto : \E to \in {"run", "reading", "waiting", "wrote", "failed", "report", "done"} :
                           proto' = [proto EXCEPT ![r] = to]
    BY <2>2 DEF Next, RunNext, RunWrite, RunGrant, RunRead, RunProto, RunDisc, Close, CloseConn, RunReturn,
         ReadMsg, ReadFails, HandlePing, HandleProto, ReaderReport, ReaderOnly,
         PingTimer, TakePing, PingWritten, PingerReport, PingerStop, PingerOnly,
         StartRead, StartWrite, ShutDown, Written, ReportWrite, Exit, ProtoReport, Moves,
         Disconnect, DisconnectClosed, CallerOnly
  <2> QED BY <2>3 DEF IInv, TypeOK
<1> QED BY <1>1, Invariance, PTL DEF Spec, NoWriteAfterFailure

-----------------------------------------------------------------------------
(* The match of protocols                                                  *)

Ver(s, n) == result[s][n].version
Off(s, n) == result[s][n].offset
End(s, n) == Off(s, n) + Length[n][Ver(s, n)]

Common == protocols["local"] \cap protocols["remote"]

\* The state of the loop.
Typed ==
  /\ protocols \in [Side -> SUBSET Cap]
  /\ caps \in [Side -> SUBSET Cap]
  /\ offset \in [Side -> Nat]
  /\ result \in [Side -> [Name -> [version : Version, offset : Nat] \cup {NoMatch}]]

\* Capabilities are taken in order, and what runs is what was taken so far: of
\* each name the highest version that both sides support.
Progress(s) ==
  /\ caps[s] \subseteq protocols[Other(s)]
  /\ \A d \in protocols[Other(s)] \ caps[s] : \A c \in caps[s] : Less(d, c)
  /\ \A n \in Running(s) : [name |-> n, version |-> Ver(s, n)] \in Common \ caps[s]
  /\ \A c \in Common \ caps[s] : c.name \in Running(s) /\ c.version <= Ver(s, c.name)

\* A running protocol starts where the one before it ends.
Adjacent(s) ==
  \A n \in Running(s) :
    \/ Off(s, n) = BaseProtocolLength /\ \A k \in Running(s) : n <= k
    \/ \E m \in Running(s) : /\ m < n /\ End(s, m) = Off(s, n)
                             /\ \A k \in Running(s) : k < n => k <= m

\* The next free code follows the last running protocol.
LastEnds(s) ==
  \/ Running(s) = {} /\ offset[s] = BaseProtocolLength
  \/ \E m \in Running(s) : End(s, m) = offset[s] /\ \A k \in Running(s) : k <= m

\* The ranges are in the order of the names, and leave no gap.
Tiled(s) ==
  /\ BaseProtocolLength <= offset[s]
  /\ \A n \in Running(s) : BaseProtocolLength <= Off(s, n) /\ End(s, n) <= offset[s]
  /\ \A m, n \in Running(s) : m < n => End(s, m) <= Off(s, n)
  /\ \A code \in BaseProtocolLength..(offset[s] - 1) :
       \E n \in Running(s) : Off(s, n) <= code /\ code < End(s, n)

\* Where both sides run a protocol already, they run it at the same offset, even
\* while one has yet to meet its higher versions.
SameStart == \A n \in Running("local") \cap Running("remote") : Off("local", n) = Off("remote", n)

MInv ==
  /\ Typed
  /\ \A s \in Side : Progress(s) /\ Adjacent(s) /\ LastEnds(s) /\ Tiled(s)
  /\ SameStart

-----------------------------------------------------------------------------
\* The two sides.
LEMMA SideFacts ==
  ASSUME NEW s \in Side
  PROVE  /\ Other(s) \in Side /\ Other(Other(s)) = s /\ Other(s) # s /\ Side = {s, Other(s)}
         /\ Common = protocols[s] \cap protocols[Other(s)]
BY DEF Side, Other, Common

\* Cap.Cmp orders capabilities totally.
LEMMA LessTotal ==
  ASSUME NEW c \in Cap, NEW d \in Cap, c # d, ~Less(d, c)
  PROVE  Less(c, d)
<1>1. /\ c.name \in Nat /\ c.version \in Nat /\ d.name \in Nat /\ d.version \in Nat
      /\ c = [name |-> c.name, version |-> c.version]
      /\ d = [name |-> d.name, version |-> d.version]
  BY MatchAssumption DEF Cap
<1>2. ~(c.name = d.name /\ c.version = d.version)
  BY <1>1
<1> QED BY <1>1, <1>2, SMT DEF Less

\* Types of a protocol that runs.
LEMMA RunFacts ==
  ASSUME Typed, NEW s \in Side, NEW n \in Running(s)
  PROVE  /\ n \in Name /\ n \in Nat
         /\ Ver(s, n) \in Version /\ Ver(s, n) \in Nat /\ Off(s, n) \in Nat
         /\ Length[n][Ver(s, n)] \in Nat /\ End(s, n) \in Nat
         /\ [name |-> n, version |-> Ver(s, n)] \in Cap
<1>1. n \in Name /\ result[s][n] \in [version : Version, offset : Nat]
  BY DEF Typed, Running
<1>2. Ver(s, n) \in Version /\ Off(s, n) \in Nat
  BY <1>1 DEF Ver, Off
<1>3. n \in Nat /\ Ver(s, n) \in Nat /\ Length[n][Ver(s, n)] \in Nat
  BY <1>1, <1>2, MatchAssumption
<1> QED BY <1>1, <1>2, <1>3 DEF End, Cap

\* Types of a capability to match.
LEMMA CapFacts ==
  ASSUME Typed, NEW s \in Side, NEW c \in caps[s]
  PROVE  c \in Cap /\ c.name \in Name /\ c.name \in Nat /\ c.version \in Version /\ c.version \in Nat
<1>1. c \in Cap
  <2>1. caps \in [Side -> SUBSET Cap]
    BY DEF Typed
  <2> QED BY <2>1
<1>2. c.name \in Name /\ c.version \in Version
  BY <1>1 DEF Cap
<1> QED BY <1>1, <1>2, MatchAssumption

\* The capability taken next has no name or version below one that was taken.
LEMMA TakenBelow ==
  ASSUME MInv, NEW s \in Side, NEW c \in caps[s], NEW k \in Running(s)
  PROVE  /\ c \in Cap /\ c.name \in Name /\ c.name \in Nat /\ c.version \in Version /\ c.version \in Nat
         /\ k <= c.name /\ (k = c.name => Ver(s, k) < c.version)
<1>1. c \in Cap /\ c.name \in Name /\ c.name \in Nat /\ c.version \in Version /\ c.version \in Nat
  BY CapFacts DEF MInv
<1>2. Less([name |-> k, version |-> Ver(s, k)], c)
  BY SideFacts DEF MInv, Progress
<1>3. k \in Nat /\ Ver(s, k) \in Nat
  BY RunFacts DEF MInv
<1> QED BY <1>1, <1>2, <1>3 DEF Less

\* Where the next match starts: after reverting an older version of the same name
\* it follows all the other running protocols without a gap.
LEMMA StartFacts ==
  ASSUME MInv, NEW s \in Side, NEW c \in caps[s]
  PROVE  LET at == Reverted(s, c.name) IN
         /\ at \in Nat /\ BaseProtocolLength <= at
         /\ c.name \in Running(s) => Off(s, c.name) = at
         /\ \A k \in Running(s) : k # c.name => k < c.name /\ End(s, k) <= at
         /\ \/ at = BaseProtocolLength /\ Running(s) \subseteq {c.name}
            \/ \E m \in Running(s) : /\ m < c.name /\ End(s, m) = at
                                     /\ \A k \in Running(s) : k < c.name => k <= m
         /\ \A code \in BaseProtocolLength..(at - 1) :
              \E n \in Running(s) : n # c.name /\ Off(s, n) <= code /\ code < End(s, n)
<1> DEFINE at == Reverted(s, c.name)
<1>0. /\ Typed /\ Adjacent(s) /\ LastEnds(s) /\ Tiled(s) /\ offset[s] \in Nat /\ BaseProtocolLength \in Nat
      /\ c.name \in Name /\ c.name \in Nat
  <2>1. Typed
    BY DEF MInv
  <2>2. offset[s] \in Nat
    BY <2>1 DEF Typed
  <2> QED BY <2>1, <2>2, CapFacts, MatchAssumption DEF MInv
<1>1. \A k \in Running(s) : /\ k \in Nat /\ k <= c.name /\ Off(s, k) \in Nat /\ End(s, k) \in Nat
                            /\ Length[k][Ver(s, k)] \in Nat
  BY <1>0, TakenBelow, RunFacts
<1>2. CASE c.name \notin Running(s)
  <2>1. at = offset[s]
    BY <1>0, <1>2 DEF Reverted, Running
  <2>2. \A k \in Running(s) : k # c.name /\ k < c.name
    BY <1>0, <1>1, <1>2
  <2> HIDE DEF at
  <2>3. \/ at = BaseProtocolLength /\ Running(s) \subseteq {c.name}
        \/ \E m \in Running(s) : /\ m < c.name /\ End(s, m) = at
                                 /\ \A k \in Running(s) : k < c.name => k <= m
    BY <1>0, <2>1, <2>2 DEF LastEnds
  <2>4. at \in Nat /\ BaseProtocolLength <= at /\ \A k \in Running(s) : End(s, k) <= at
    BY <1>0, <2>1 DEF Tiled
  <2>5. \A code \in BaseProtocolLength..(at - 1) :
          \E n \in Running(s) : n # c.name /\ Off(s, n) <= code /\ code < End(s, n)
    BY <1>0, <2>1, <2>2 DEF Tiled
  <2> QED BY <1>2, <2>2, <2>3, <2>4, <2>5 DEF at
<1>3. CASE c.name \in Running(s)
  <2>1. End(s, c.name) = offset[s]
    <3>1. PICK m \in Running(s) : End(s, m) = offset[s] /\ \A k \in Running(s) : k <= m
      BY <1>0, <1>3 DEF LastEnds
    <3>2. m = c.name
      BY <1>1, <1>3, <3>1
    <3> QED BY <3>1, <3>2
  <2>2. at = Off(s, c.name)
    <3>1. at = offset[s] - Length[c.name][Ver(s, c.name)]
      BY <1>3 DEF Reverted, Running, Ver
    <3> QED BY <1>1, <1>3, <2>1, <3>1 DEF End
  <2> HIDE DEF at
  <2>3. at \in Nat /\ BaseProtocolLength <= at
    BY <1>0, <1>1, <1>3, <2>2 DEF Tiled
  <2>4. \A k \in Running(s) : k # c.name => k < c.name /\ End(s, k) <= at
    BY <1>0, <1>1, <1>3, <2>2 DEF Tiled
  <2>5. \/ at = BaseProtocolLength /\ Running(s) \subseteq {c.name}
        \/ \E m \in Running(s) : /\ m < c.name /\ End(s, m) = at
                                 /\ \A k \in Running(s) : k < c.name => k <= m
    BY <1>0, <1>1, <1>3, <2>2 DEF Adjacent
  <2>6. ASSUME NEW code \in BaseProtocolLength..(at - 1)
        PROVE  \E n \in Running(s) : n # c.name /\ Off(s, n) <= code /\ code < End(s, n)
    <3>1. code \in BaseProtocolLength..(offset[s] - 1) /\ code < at
      BY <1>0, <1>1, <1>3, <2>1, <2>2, <2>3 DEF End
    <3>2. PICK n \in Running(s) : Off(s, n) <= code /\ code < End(s, n)
      BY <1>0, <3>1 DEF Tiled
    <3> QED BY <1>1, <2>2, <2>3, <3>1, <3>2
  <2> QED BY <2>2, <2>3, <2>4, <2>5, <2>6 DEF at
<1> QED BY <1>2, <1>3

\* A side that comes to a protocol the other side runs already starts it at the
\* other's offset: below it both have matched the same protocols, in the same
\* versions.
LEMMA StartAgreed ==
  ASSUME MInv, NEW s \in Side, NEW c \in caps[s], \A d \in caps[s] : ~Less(d, c),
         c.name \in Running(Other(s))
  PROVE  Off(Other(s), c.name) = Reverted(s, c.name)
<1> DEFINE t == Other(s)
           at == Reverted(s, c.name)
           n == c.name
<1>0. t \in Side /\ Other(t) = s /\ Common = protocols[s] \cap protocols[t]
  BY SideFacts
<1>1. /\ Typed /\ Adjacent(t) /\ c \in Cap /\ n \in Nat /\ c.version \in Nat
      /\ Progress(s) /\ Progress(t)
  BY <1>0, CapFacts DEF MInv
<1>2. \A k \in Running(s) : Off(s, k) \in Nat /\ k \in Nat /\ Ver(s, k) \in Nat /\ End(s, k) \in Nat
  BY <1>1, RunFacts
<1>3. \A k \in Running(t) : Off(t, k) \in Nat /\ k \in Nat /\ Ver(t, k) \in Nat /\ End(t, k) \in Nat
  BY <1>0, <1>1, RunFacts
<1>4. \A k \in Running(s) \cap Running(t) : Off(s, k) = Off(t, k)
  BY <1>0 DEF MInv, SameStart, Side, Other
<1>5. ASSUME NEW k \in Running(t), k < n
      PROVE  k \in Running(s) /\ Ver(t, k) <= Ver(s, k)
  <2> DEFINE e == [name |-> k, version |-> Ver(t, k)]
  <2>1. e \in Common
    BY <1>1 DEF Progress
  <2>2. Less(e, c)
    BY <1>5, <1>1 DEF Less
  <2>3. e \in Common \ caps[s]
    BY <2>1, <2>2
  <2>4. e.name \in Running(s) /\ e.version <= Ver(s, e.name)
    BY <1>1, <2>3 DEF Progress
  <2> QED BY <2>4
<1>6. ASSUME NEW k \in Running(s), k < n
      PROVE  k \in Running(t) /\ Ver(s, k) <= Ver(t, k)
  <2> DEFINE e == [name |-> k, version |-> Ver(s, k)]
             f == [name |-> n, version |-> Ver(t, n)]
  <2>1. e \in Common
    BY <1>1 DEF Progress
  <2>2. f \in protocols[Other(t)] \ caps[t]
    BY <1>0, <1>1 DEF Progress
  <2>3. ~Less(f, e)
    BY <1>6, <1>1, <1>2 DEF Less
  <2>4. e \in Common \ caps[t]
    BY <1>1, <2>1, <2>2, <2>3 DEF Progress
  <2>5. e.name \in Running(t) /\ e.version <= Ver(t, e.name)
    BY <1>1, <2>4 DEF Progress
  <2> QED BY <2>5
<1>7. ASSUME NEW k \in Running(s), k < n
      PROVE  k \in Running(t) /\ End(s, k) = End(t, k)
  <2>1. k \in Running(t) /\ Ver(s, k) = Ver(t, k)
    BY <1>2, <1>3, <1>5, <1>6, <1>7
  <2> QED BY <1>4, <2>1 DEF End
<1>8. \/ at = BaseProtocolLength /\ Running(s) \subseteq {n}
      \/ \E m \in Running(s) : /\ m < n /\ End(s, m) = at
                               /\ \A k \in Running(s) : k < n => k <= m
  BY StartFacts
<1>9. \/ Off(t, n) = BaseProtocolLength /\ \A k \in Running(t) : n <= k
      \/ \E m \in Running(t) : /\ m < n /\ End(t, m) = Off(t, n)
                               /\ \A k \in Running(t) : k < n => k <= m
  BY <1>1 DEF Adjacent
<1> HIDE DEF t, at, n
<1>10. CASE at = BaseProtocolLength /\ Running(s) \subseteq {n}
  <2>1. \A m \in Running(t) : ~(m < n)
    BY <1>1, <1>3, <1>5, <1>10
  <2> QED BY <1>9, <1>10, <2>1 DEF t, at, n
<1>11. ASSUME NEW m \in Running(s), m < n, End(s, m) = at, \A k \in Running(s) : k < n => k <= m
       PROVE  Off(t, n) = at
  <2>1. m \in Running(t) /\ End(t, m) = at
    BY <1>7, <1>11
  <2>2. PICK q \in Running(t) : /\ q < n /\ End(t, q) = Off(t, n)
                                /\ \A k \in Running(t) : k < n => k <= q
    BY <1>1, <1>3, <1>9, <1>11, <2>1
  <2>3. q = m
    BY <1>2, <1>3, <1>5, <1>11, <2>1, <2>2
  <2> QED BY <2>1, <2>2, <2>3
<1> QED BY <1>8, <1>10, <1>11 DEF t, at, n

\* One capability, by whether this side supports it too.
Skip(s, c) ==
  /\ ~Matches(s, c)
  /\ caps' = [caps EXCEPT ![s] = @ \ {c}]
  /\ UNCHANGED <<protocols, offset, result>>

Run(s, c) ==
  /\ Matches(s, c)
  /\ result' = [result EXCEPT ![s][c.name] = [version |-> c.version, offset |-> Reverted(s, c.name)]]
  /\ offset' = [offset EXCEPT ![s] = Reverted(s, c.name) + Length[c.name][c.version]]
  /\ caps' = [caps EXCEPT ![s] = @ \ {c}]
  /\ UNCHANGED protocols

\* One turn of the loop skips the least capability or runs it.
LEMMA MatchCases ==
  ASSUME NEW s \in Side, Match(s)
  PROVE  \E c \in caps[s] : /\ \A d \in caps[s] : ~Less(d, c)
                            /\ Skip(s, c) \/ Run(s, c)
BY DEF Match, Skip, Run

\* What a side does leaves the other side's loop alone.
LEMMA OtherKept ==
  ASSUME MInv, NEW s \in Side, NEW c \in caps[s], Skip(s, c) \/ Run(s, c)
  PROVE  LET t == Other(s) IN
         /\ caps'[t] = caps[t] /\ offset'[t] = offset[t] /\ result'[t] = result[t]
         /\ Progress(t)' /\ Adjacent(t)' /\ LastEnds(t)' /\ Tiled(t)'
<1> DEFINE t == Other(s)
<1>0. t \in Side /\ t # s
  BY SideFacts
<1>1. caps'[t] = caps[t] /\ offset'[t] = offset[t] /\ result'[t] = result[t] /\ protocols' = protocols
  <2>1. caps \in [Side -> SUBSET Cap] /\ offset \in [Side -> Nat] /\ DOMAIN result = Side
    BY DEF MInv, Typed
  <2> QED BY <1>0, <2>1 DEF Skip, Run
<1>2. Progress(t) /\ Adjacent(t) /\ LastEnds(t) /\ Tiled(t)
  BY <1>0 DEF MInv
<1> HIDE DEF t
<1>3. /\ Running(t)' = Running(t) /\ Common' = Common
      /\ \A n : Ver(t, n)' = Ver(t, n) /\ Off(t, n)' = Off(t, n) /\ End(t, n)' = End(t, n)
  BY <1>1 DEF Running, Common, Ver, Off, End
<1>4. Progress(t)'
  BY <1>1, <1>2, <1>3, Zenon DEF Progress
<1>5. Adjacent(t)' /\ LastEnds(t)' /\ Tiled(t)'
  BY <1>1, <1>2, <1>3 DEF Adjacent, LastEnds, Tiled
<1> QED BY <1>1, <1>4, <1>5 DEF t

\* What was taken stays below what remains.
LEMMA OrderKept ==
  ASSUME MInv, NEW s \in Side, NEW c \in caps[s], \A d \in caps[s] : ~Less(d, c),
         caps' = [caps EXCEPT ![s] = @ \ {c}], protocols' = protocols
  PROVE  /\ caps'[s] = caps[s] \ {c}
         /\ caps'[s] \subseteq protocols'[Other(s)]
         /\ \A d \in protocols'[Other(s)] \ caps'[s] : \A e \in caps'[s] : Less(d, e)
<1>1. caps \in [Side -> SUBSET Cap] /\ Progress(s)
  BY DEF MInv, Typed
<1>2. caps'[s] = caps[s] \ {c}
  BY <1>1
<1>3. caps'[s] \subseteq protocols'[Other(s)]
  BY <1>1, <1>2 DEF Progress
<1>4. ASSUME NEW d \in protocols[Other(s)] \ caps'[s], NEW e \in caps'[s]
      PROVE  Less(d, e)
  <2>1. CASE d = c
    <3>1. e \in Cap /\ c \in Cap /\ e # c /\ ~Less(e, c)
      BY <1>1, <1>2
    <3> QED BY <2>1, <3>1, LessTotal
  <2>2. CASE d # c
    BY <1>1, <1>2, <2>2 DEF Progress
  <2> QED BY <2>1, <2>2
<1> QED BY <1>2, <1>3, <1>4

\* A capability without a counterpart changes nothing but what is left.
LEMMA SkipKeeps ==
  ASSUME MInv, NEW s \in Side, NEW c \in caps[s], \A d \in caps[s] : ~Less(d, c), Skip(s, c)
  PROVE  MInv'
<1>0. Typed /\ Progress(s) /\ Adjacent(s) /\ LastEnds(s) /\ Tiled(s) /\ SameStart
  BY DEF MInv
<1>1. result' = result /\ offset' = offset /\ protocols' = protocols /\ caps' = [caps EXCEPT ![s] = @ \ {c}]
  BY DEF Skip
<1>2. /\ Common' = Common
      /\ \A t : Running(t)' = Running(t)
      /\ \A t, n : Ver(t, n)' = Ver(t, n) /\ Off(t, n)' = Off(t, n) /\ End(t, n)' = End(t, n)
  BY <1>1 DEF Common, Running, Ver, Off, End
<1>3. Typed'
  <2>1. caps' \in [Side -> SUBSET Cap]
    <3>1. caps \in [Side -> SUBSET Cap]
      BY <1>0 DEF Typed
    <3> QED BY <1>1, <3>1
  <2> QED BY <1>0, <1>1, <2>1 DEF Typed
<1>4. Progress(s)'
  <2>1. /\ caps'[s] = caps[s] \ {c}
        /\ caps'[s] \subseteq protocols'[Other(s)]
        /\ \A d \in protocols'[Other(s)] \ caps'[s] : \A e \in caps'[s] : Less(d, e)
    BY <1>1, OrderKept
  <2>2. c \notin Common
    BY SideFacts DEF Skip, Matches
  <2>3. Common \ caps'[s] = Common \ caps[s]
    BY <2>1, <2>2
  <2> QED BY <1>0, <1>2, <2>1, <2>3 DEF Progress
<1>5. Adjacent(s)' /\ LastEnds(s)' /\ Tiled(s)' /\ SameStart'
  BY <1>0, <1>1, <1>2 DEF Adjacent, LastEnds, Tiled, SameStart
<1>6. Progress(Other(s))' /\ Adjacent(Other(s))' /\ LastEnds(Other(s))' /\ Tiled(Other(s))'
  BY OtherKept
<1>7. \A t \in Side : t = s \/ t = Other(s)
  BY SideFacts
<1> QED BY <1>3, <1>4, <1>5, <1>6, <1>7 DEF MInv

\* What the maps of a side are after a match.
LEMMA RunEffect ==
  ASSUME MInv, NEW s \in Side, NEW c \in caps[s], Run(s, c)
  PROVE  LET at == Reverted(s, c.name) IN
         /\ Typed' /\ Common' = Common
         /\ Running(s)' = Running(s) \cup {c.name}
         /\ \A n \in Running(s) : n # c.name =>
              Ver(s, n)' = Ver(s, n) /\ Off(s, n)' = Off(s, n) /\ End(s, n)' = End(s, n)
         /\ Ver(s, c.name)' = c.version /\ Off(s, c.name)' = at
         /\ End(s, c.name)' = offset'[s] /\ offset'[s] \in Nat /\ at <= offset'[s]
<1> DEFINE at == Reverted(s, c.name)
           r == [version |-> c.version, offset |-> at]
           MaybeRun == [version : Version, offset : Nat] \cup {NoMatch}
<1>0. /\ Typed /\ c \in Cap /\ c.name \in Name /\ c.version \in Version
      /\ Length[c.name][c.version] \in Nat
  BY CapFacts, MatchAssumption DEF MInv
<1>1. at \in Nat
  BY StartFacts
<1>2. /\ protocols \in [Side -> SUBSET Cap] /\ caps \in [Side -> SUBSET Cap]
      /\ offset \in [Side -> Nat] /\ result \in [Side -> [Name -> MaybeRun]]
  BY <1>0 DEF Typed
<1> HIDE DEF at
<1>3. r \in MaybeRun /\ r # NoMatch /\ r.version = c.version /\ r.offset = at
  BY <1>0, <1>1, MatchAssumption
<1>4. result' = [result EXCEPT ![s] = [result[s] EXCEPT ![c.name] = r]]
  BY <1>2 DEF Run, at
<1> HIDE DEF r, MaybeRun
<1>5. /\ result'[s][c.name] = r
      /\ \A n \in Name : n # c.name => result'[s][n] = result[s][n]
      /\ result' \in [Side -> [Name -> MaybeRun]]
  BY <1>0, <1>2, <1>3, <1>4
<1>6. offset' \in [Side -> Nat] /\ offset'[s] = at + Length[c.name][c.version]
  BY <1>0, <1>1, <1>2 DEF Run, at
<1>7. Typed'
  <2>1. caps' \in [Side -> SUBSET Cap] /\ protocols' = protocols
    BY <1>2 DEF Run
  <2> QED BY <1>2, <1>5, <1>6, <2>1 DEF Typed, MaybeRun
<1>8. Running(s)' = Running(s) \cup {c.name}
  BY <1>0, <1>3, <1>5 DEF Running
<1>9. \A n \in Running(s) : n # c.name =>
              Ver(s, n)' = Ver(s, n) /\ Off(s, n)' = Off(s, n) /\ End(s, n)' = End(s, n)
  BY <1>5 DEF Running, Ver, Off, End
<1>10. Ver(s, c.name)' = c.version /\ Off(s, c.name)' = at
  BY <1>3, <1>5 DEF Ver, Off
<1>11. End(s, c.name)' = offset'[s]
  BY <1>6, <1>10 DEF End
<1>12. offset'[s] \in Nat /\ at <= offset'[s]
  BY <1>0, <1>1, <1>6
<1>13. Common' = Common
  BY DEF Run, Common
<1> QED BY <1>7, <1>8, <1>9, <1>10, <1>11, <1>12, <1>13 DEF at

\* A match, or a newer version in place of the one matched before.
LEMMA RunKeeps ==
  ASSUME MInv, NEW s \in Side, NEW c \in caps[s], \A d \in caps[s] : ~Less(d, c), Run(s, c)
  PROVE  MInv'
<1> DEFINE t == Other(s)
           at == Reverted(s, c.name)
<1>0. /\ Typed /\ Progress(s) /\ Adjacent(s) /\ LastEnds(s) /\ Tiled(s) /\ SameStart
      /\ t \in Side /\ c.name \in Nat /\ c.version \in Nat /\ BaseProtocolLength \in Nat
  BY SideFacts, CapFacts, MatchAssumption DEF MInv
<1>1. /\ Typed' /\ Common' = Common
      /\ Running(s)' = Running(s) \cup {c.name}
      /\ \A n \in Running(s) : n # c.name =>
           Ver(s, n)' = Ver(s, n) /\ Off(s, n)' = Off(s, n) /\ End(s, n)' = End(s, n)
      /\ Ver(s, c.name)' = c.version /\ Off(s, c.name)' = at
      /\ End(s, c.name)' = offset'[s] /\ offset'[s] \in Nat /\ at <= offset'[s]
  BY RunEffect
<1>2. /\ at \in Nat /\ BaseProtocolLength <= at
      /\ c.name \in Running(s) => Off(s, c.name) = at
      /\ \A k \in Running(s) : k # c.name => k < c.name /\ End(s, k) <= at
      /\ \/ at = BaseProtocolLength /\ Running(s) \subseteq {c.name}
         \/ \E m \in Running(s) : /\ m < c.name /\ End(s, m) = at
                                  /\ \A k \in Running(s) : k < c.name => k <= m
      /\ \A code \in BaseProtocolLength..(at - 1) :
           \E n \in Running(s) : n # c.name /\ Off(s, n) <= code /\ code < End(s, n)
  BY StartFacts
<1>3. c.name \in Running(t) => Off(t, c.name) = at
  BY StartAgreed
<1> HIDE DEF at
<1>4. \A k \in Running(s) : /\ k \in Nat /\ k <= c.name /\ Off(s, k) \in Nat /\ End(s, k) \in Nat
                            /\ Ver(s, k) \in Nat /\ (k = c.name => Ver(s, k) < c.version)
  BY <1>0, TakenBelow, RunFacts
<1>5. Progress(s)'
  <2>1. /\ caps'[s] = caps[s] \ {c}
        /\ caps'[s] \subseteq protocols'[Other(s)]
        /\ \A d \in protocols'[Other(s)] \ caps'[s] : \A e \in caps'[s] : Less(d, e)
    BY OrderKept DEF Run
  <2>2. c \in Common /\ c = [name |-> c.name, version |-> c.version] /\ Common \subseteq Cap
    <3>1. c \in Common
      BY SideFacts, <1>0 DEF Run, Matches, MInv, Progress
    <3>2. c \in Cap /\ protocols \in [Side -> SUBSET Cap]
      BY <1>0, CapFacts DEF Typed
    <3> QED BY <3>1, <3>2 DEF Cap, Common, Side
  <2>3. ASSUME NEW n \in Running(s)'
        PROVE  [name |-> n, version |-> Ver(s, n)'] \in Common \ caps'[s]
    <3>1. CASE n = c.name
      BY <1>1, <2>1, <2>2, <3>1
    <3>2. CASE n # c.name
      BY <1>0, <1>1, <2>1, <3>2 DEF Progress
    <3> QED BY <3>1, <3>2
  <2>4. ASSUME NEW e \in Common \ caps'[s]
        PROVE  e.name \in Running(s)' /\ e.version <= Ver(s, e.name)'
    <3>1. CASE e = c
      BY <1>0, <1>1, <3>1
    <3>2. CASE e # c
      <4>1. e \in Common \ caps[s] /\ e.version \in Nat
        BY <2>1, <2>2, <3>2, MatchAssumption DEF Cap
      <4>2. e.name \in Running(s) /\ e.version <= Ver(s, e.name)
        BY <1>0, <4>1 DEF Progress
      <4> QED BY <1>0, <1>1, <1>4, <4>1, <4>2
    <3> QED BY <3>1, <3>2
  <2> QED BY <1>1, <2>1, <2>3, <2>4 DEF Progress
<1>6. Adjacent(s)'
  <2>1. ASSUME NEW n \in Running(s)', n = c.name
        PROVE  \/ Off(s, n)' = BaseProtocolLength /\ \A k \in Running(s)' : n <= k
               \/ \E m \in Running(s)' : /\ m < n /\ End(s, m)' = Off(s, n)'
                                         /\ \A k \in Running(s)' : k < n => k <= m
    BY <1>0, <1>1, <1>2, <1>4, <2>1
  <2>2. ASSUME NEW n \in Running(s), n # c.name
        PROVE  \/ Off(s, n)' = BaseProtocolLength /\ \A k \in Running(s)' : n <= k
               \/ \E m \in Running(s)' : /\ m < n /\ End(s, m)' = Off(s, n)'
                                         /\ \A k \in Running(s)' : k < n => k <= m
    <3>1. n < c.name /\ n \in Nat /\ c.name \in Nat /\ Off(s, n)' = Off(s, n)
      BY <1>0, <1>1, <1>2, <1>4, <2>2
    <3>a. n <= c.name /\ ~(c.name < n)
      BY <3>1
    <3>b. \A k \in Running(s)' : k \in Running(s) \/ k = c.name
      BY <1>1
    <3>2. CASE Off(s, n) = BaseProtocolLength /\ \A k \in Running(s) : n <= k
      BY <3>1, <3>2, <3>a, <3>b, Zenon
    <3>3. ASSUME NEW m \in Running(s), m < n, End(s, m) = Off(s, n),
                 \A k \in Running(s) : k < n => k <= m
          PROVE  \E q \in Running(s)' : /\ q < n /\ End(s, q)' = Off(s, n)'
                                        /\ \A k \in Running(s)' : k < n => k <= q
      <4>1. m # c.name /\ End(s, m)' = End(s, m)
        BY <1>0, <1>1, <1>4, <3>1, <3>3
      <4>2. \A k \in Running(s)' : k < n => k <= m
        BY <3>3, <3>a, <3>b, Zenon
      <4> QED BY <1>1, <3>1, <3>3, <4>1, <4>2
    <3> QED BY <1>0, <2>2, <3>2, <3>3 DEF Adjacent
  <2> QED BY <1>1, <2>1, <2>2 DEF Adjacent
<1>7. LastEnds(s)'
  BY <1>0, <1>1, <1>4 DEF LastEnds
<1>8. Tiled(s)'
  <2>1. BaseProtocolLength <= offset'[s]
    BY <1>0, <1>1, <1>2
  <2>2. \A n \in Running(s)' : BaseProtocolLength <= Off(s, n)' /\ End(s, n)' <= offset'[s]
    BY <1>0, <1>1, <1>2, <1>4 DEF Tiled
  <2>3. \A m, n \in Running(s)' : m < n => End(s, m)' <= Off(s, n)'
    BY <1>0, <1>1, <1>2, <1>4 DEF Tiled
  <2>4. ASSUME NEW code \in BaseProtocolLength..(offset'[s] - 1)
        PROVE  \E n \in Running(s)' : Off(s, n)' <= code /\ code < End(s, n)'
    <3>1. CASE code < at
      <4>1. PICK n \in Running(s) : n # c.name /\ Off(s, n) <= code /\ code < End(s, n)
        BY <1>0, <1>1, <1>2, <3>1
      <4> QED BY <1>1, <4>1
    <3>2. CASE at <= code
      BY <1>0, <1>1, <1>2, <3>2
    <3> QED BY <1>0, <1>1, <1>2, <3>1, <3>2
  <2> QED BY <2>1, <2>2, <2>3, <2>4 DEF Tiled
<1>9. /\ Progress(t)' /\ Adjacent(t)' /\ LastEnds(t)' /\ Tiled(t)'
      /\ Running(t)' = Running(t) /\ \A n : Off(t, n)' = Off(t, n)
  BY OtherKept DEF Running, Off
<1>10. SameStart'
  <2>1. \A n \in Running(s) \cap Running(t) : Off(s, n) = Off(t, n)
    BY <1>0 DEF SameStart, Side, Other
  <2>2. ASSUME NEW n \in Running(s)' \cap Running(t)'
        PROVE  Off(s, n)' = Off(t, n)'
    BY <1>1, <1>2, <1>3, <1>9, <2>1
  <2> QED BY <2>2 DEF SameStart, Side, Other
<1>11. \A u \in Side : u = s \/ u = t
  BY SideFacts
<1> QED BY <1>1, <1>5, <1>6, <1>7, <1>8, <1>9, <1>10, <1>11 DEF MInv

-----------------------------------------------------------------------------
\* Before the loop nothing runs.
LEMMA MatchInitially == MatchInit => MInv
<1> SUFFICES ASSUME MatchInit PROVE MInv
  OBVIOUS
<1>1. Typed
  <2>1. protocols \in [Side -> SUBSET Cap]
    BY DEF MatchInit
  <2>2. caps \in [Side -> SUBSET Cap]
    BY <2>1 DEF MatchInit, Side, Other
  <2>3. offset \in [Side -> Nat]
    BY MatchAssumption DEF MatchInit
  <2> QED BY <2>1, <2>2, <2>3 DEF MatchInit, Typed
<1>2. ASSUME NEW s \in Side
      PROVE  Running(s) = {} /\ offset[s] = BaseProtocolLength /\ caps[s] = protocols[Other(s)]
  BY DEF MatchInit, Running
<1>3. ASSUME NEW s \in Side
      PROVE  Progress(s)
  <2>1. Common \ caps[s] = {}
    BY <1>2, SideFacts
  <2> QED BY <1>2, <2>1 DEF Progress
<1>4. ASSUME NEW s \in Side
      PROVE  Adjacent(s) /\ LastEnds(s)
  BY <1>2 DEF Adjacent, LastEnds
<1>5. ASSUME NEW s \in Side
      PROVE  Tiled(s)
  BY <1>2, MatchAssumption DEF Tiled
<1>6. SameStart
  BY <1>2 DEF SameStart, Side
<1> QED BY <1>1, <1>3, <1>4, <1>5, <1>6 DEF MInv

\* The inductive invariant: whatever either side has matched so far, its running
\* protocols are the best common ones below what it has yet to look at, they lie
\* one after the other, and those that run on both sides start at the same code.
THEOREM MatchInvariant == MatchSpec => []MInv
<1>1. ASSUME MInv, [MatchNext]_matchVars
      PROVE  MInv'
  <2>1. CASE MatchNext
    <3>1. PICK s \in Side : Match(s)
      BY <2>1 DEF MatchNext
    <3>2. PICK c \in caps[s] : /\ \A d \in caps[s] : ~Less(d, c)
                               /\ Skip(s, c) \/ Run(s, c)
      BY <3>1, MatchCases
    <3> QED BY <1>1, <3>2, SkipKeeps, RunKeeps
  <2>2. CASE UNCHANGED matchVars
    <3>1. /\ protocols' = protocols /\ caps' = caps /\ offset' = offset /\ result' = result
      BY <2>2 DEF matchVars
    <3>2. /\ Common' = Common
          /\ \A s : Running(s)' = Running(s)
          /\ \A s, n : Ver(s, n)' = Ver(s, n) /\ Off(s, n)' = Off(s, n) /\ End(s, n)' = End(s, n)
      BY <3>1 DEF Common, Running, Ver, Off, End
    <3>3. Typed' /\ SameStart'
      BY <1>1, <3>1, <3>2 DEF MInv, Typed, SameStart
    <3>4. ASSUME NEW s \in Side
          PROVE  Progress(s)'
      <4>1. Progress(s)
        BY <1>1 DEF MInv
      <4> QED BY <3>1, <3>2, <4>1 DEF Progress
    <3>5. ASSUME NEW s \in Side
          PROVE  Adjacent(s)' /\ LastEnds(s)' /\ Tiled(s)'
      <4>1. Adjacent(s) /\ LastEnds(s) /\ Tiled(s)
        BY <1>1 DEF MInv
      <4> QED BY <3>1, <3>2, <4>1 DEF Adjacent, LastEnds, Tiled
    <3> QED BY <3>3, <3>4, <3>5 DEF MInv
  <2> QED BY <1>1, <2>1, <2>2
<1> QED BY <1>1, MatchInitially, PTL DEF MatchSpec

\* At every point of matchProtocols' loop each code from the base protocol's up to
\* the next free one belongs to exactly one running protocol and no other code
\* to any, for any protocols, versions and lengths.
THEOREM CodesStayShared == MatchSpec => []CodesShared
<1>1. ASSUME MInv
      PROVE  CodesShared
  <2> SUFFICES ASSUME NEW s \in Side, NEW code \in 0..(offset[s] + 1)
               PROVE  Cardinality({n \in Name : Handles(s, n, code)}) =
                        IF code \in BaseProtocolLength..(offset[s] - 1) THEN 1 ELSE 0
    BY DEF CodesShared
  <2> DEFINE H == {n \in Name : Handles(s, n, code)}
  <2>0. Typed /\ Tiled(s) /\ BaseProtocolLength \in Nat
    BY <1>1, MatchAssumption DEF MInv
  <2>1. offset[s] \in Nat /\ code \in Nat
    <3>1. offset[s] \in Nat
      BY <2>0 DEF Typed
    <3> QED BY <3>1
  <2>2. \A n \in Running(s) : n \in Name /\ n \in Nat /\ Off(s, n) \in Nat /\ End(s, n) \in Nat
    BY <2>0, RunFacts
  <2>3. \A n \in Name : n \in H <=> n \in Running(s) /\ Off(s, n) <= code /\ code < End(s, n)
    <3>1. ASSUME NEW n \in Running(s)
          PROVE  Handles(s, n, code) <=> Off(s, n) <= code /\ code < End(s, n)
      <4> DEFINE o == result[s][n].offset
                 l == Length[n][result[s][n].version]
      <4>1. o = Off(s, n) /\ l = Length[n][Ver(s, n)] /\ End(s, n) = Off(s, n) + Length[n][Ver(s, n)]
        BY Zenon DEF Off, Ver, End
      <4>2. o \in Nat /\ l \in Nat /\ End(s, n) = o + l
        BY <2>0, <4>1, RunFacts
      <4>3. Handles(s, n, code) <=> code \in o..(o + l - 1)
        BY DEF Handles
      <4> HIDE DEF o, l
      <4> QED BY <2>1, <4>1, <4>2, <4>3
    <3>2. ASSUME NEW n \in Name, n \notin Running(s)
          PROVE  ~Handles(s, n, code)
      BY <3>2 DEF Handles
    <3> QED BY <3>1, <3>2
  <2>4. CASE code \in BaseProtocolLength..(offset[s] - 1)
    <3>1. PICK n \in Running(s) : Off(s, n) <= code /\ code < End(s, n)
      BY <2>0, <2>4 DEF Tiled
    <3>2. ASSUME NEW m \in Running(s), Off(s, m) <= code, code < End(s, m)
          PROVE  m = n
      BY <2>0, <2>1, <2>2, <3>1, <3>2 DEF Tiled
    <3>3. H = {n}
      <4>1. H \subseteq {n}
        BY <2>3, <3>2
      <4>2. n \in H
        BY <2>2, <2>3, <3>1
      <4> QED BY <4>1, <4>2
    <3> QED BY <2>4, <3>3, FS_Singleton
  <2>5. CASE code \notin BaseProtocolLength..(offset[s] - 1)
    <3>1. \A n \in Running(s) : ~(Off(s, n) <= code /\ code < End(s, n))
      BY <2>0, <2>1, <2>2, <2>5 DEF Tiled
    <3>2. H = {}
      BY <2>3, <3>1
    <3> QED BY <2>5, <3>2, FS_EmptySet
  <2> QED BY <2>4, <2>5
<1> QED BY <1>1, MatchInvariant, PTL

\* Once both sides are through, they run the same protocols at the same offsets,
\* each in the highest version both support, although each went through
\* another list and nothing was exchanged.
THEOREM SidesComeToAgree == MatchSpec => []SidesAgree
<1>1. ASSUME MInv
      PROVE  SidesAgree
  <2> SUFFICES ASSUME \A s \in Side : caps[s] = {}, NEW n \in Name
               PROVE  LET common == {c.version : c \in {c \in protocols["local"] \cap protocols["remote"] : c.name = n}}
                      IN /\ result["local"][n] = result["remote"][n]
                         /\ IF common = {} THEN result["local"][n] = NoMatch
                            ELSE result["local"][n].version = Max(common)
    BY DEF SidesAgree
  <2> DEFINE common == {c.version : c \in {c \in protocols["local"] \cap protocols["remote"] : c.name = n}}
  <2>0. Typed /\ SameStart /\ \A s \in Side : caps[s] = {} /\ Progress(s)
    BY <1>1 DEF MInv
  <2>1. common \subseteq Nat
    <3>1. protocols["local"] \subseteq Cap
      BY <2>0 DEF Typed, Side
    <3> QED BY <3>1, MatchAssumption DEF Cap
  <2>2. ASSUME NEW s \in Side, n \in Running(s)
        PROVE  Ver(s, n) \in common /\ Ver(s, n) \in Nat /\ \A v \in common : v <= Ver(s, n)
    <3>1. [name |-> n, version |-> Ver(s, n)] \in Common
      BY <2>0, <2>2 DEF Progress
    <3>2. ASSUME NEW v \in common
          PROVE  v <= Ver(s, n)
      <4>1. PICK c \in Common : c.name = n /\ c.version = v
        BY DEF Common
      <4> QED BY <2>0, <4>1 DEF Progress
    <3>3. Ver(s, n) \in common
      BY <3>1 DEF Common
    <3> QED BY <2>1, <3>2, <3>3
  <2>3. ASSUME NEW s \in Side, common # {}
        PROVE  n \in Running(s)
    <3>1. PICK c \in Common : c.name = n
      BY <2>3 DEF Common
    <3> QED BY <2>0, <3>1 DEF Progress
  <2>4. CASE common = {}
    <3>1. n \notin Running("local") /\ n \notin Running("remote")
      BY <2>2, <2>4 DEF Side
    <3> QED BY <2>4, <3>1 DEF Running
  <2>5. CASE common # {}
    <3> HIDE DEF common
    <3>1. n \in Running("local") /\ n \in Running("remote")
      BY <2>3, <2>5 DEF Side
    <3>2. Ver("local", n) = Ver("remote", n)
      BY <2>2, <3>1 DEF Side
    <3>3. Off("local", n) = Off("remote", n)
      BY <2>0, <3>1 DEF SameStart
    <3>4. result["local"][n] = result["remote"][n]
      <4>1. ASSUME NEW s \in Side
            PROVE  result[s][n] \in [version : Version, offset : Nat] \/ result[s][n] = NoMatch
        BY <2>0 DEF Typed
      <4>2. /\ result["local"][n] \in [version : Version, offset : Nat]
            /\ result["remote"][n] \in [version : Version, offset : Nat]
        BY <3>1, <4>1 DEF Side, Running
      <4>3. /\ result["local"][n] = [version |-> Ver("local", n), offset |-> Off("local", n)]
            /\ result["remote"][n] = [version |-> Ver("remote", n), offset |-> Off("remote", n)]
        BY <4>2 DEF Ver, Off
      <4> QED BY <3>2, <3>3, <4>3
    <3>5. Ver("local", n) = Max(common)
      <4>1. /\ Ver("local", n) \in common /\ Ver("local", n) \in Nat
            /\ \A v \in common : v \in Nat /\ v <= Ver("local", n)
        BY <2>1, <2>2, <3>1 DEF Side
      <4>2. \E x \in common : \A y \in common : x >= y
        BY <4>1
      <4>3. Max(common) \in common /\ \A y \in common : Max(common) >= y
        BY <4>2 DEF Max
      <4> QED BY <4>1, <4>3
    <3> QED BY <2>5, <3>4, <3>5 DEF Ver, common
  <2> QED BY <2>4, <2>5
<1> QED BY <1>1, MatchInvariant, PTL
=============================================================================
