----------------------------- MODULE FeedProofs -----------------------------
(***************************************************************************)
(* Proofs about FeedSpec, for any channels, calls of Send and capacity.    *)
(*                                                                         *)
(* The order of values on a channel follows the tickets of the send lock:  *)
(* the one call that is sending has the latest ticket, and a channel it    *)
(* still has to reach got values of finished calls only.                   *)
(***************************************************************************)
EXTENDS FeedSpec, TLAPS

\* One call has the send lock.
LockInv == \A s, t \in Sender : pc[s] \in {"locked", "sending"} /\ pc[t] \in {"locked", "sending"} => s = t

\* Calls that got the lock have different tickets; the holder has the latest.
TicketInv ==
  /\ \A s \in Sender : /\ ticket[s] <= turn
                       /\ ticket[s] = 0 <=> pc[s] \in {"idle", "called"}
                       /\ pc[s] \in {"locked", "sending"} => ticket[s] = turn
  /\ \A s, t \in Sender : ticket[s] = ticket[t] /\ ticket[s] # 0 => s = t

\* A value is owed only while its call is sending.
AudienceInv == audience # {} => \E s \in Sender : pc[s] = "sending"

\* Channels hold values of calls that are sending or done, by ticket.
GotInv ==
  \A c \in Chan :
    /\ \A i \in 1..Len(got[c]) : pc[got[c][i]] \in {"sending", "done"}
    /\ c \in audience => \A i \in 1..Len(got[c]) : pc[got[c][i]] = "done"
    /\ \A i, j \in 1..Len(got[c]) : i < j => ticket[got[c][i]] < ticket[got[c][j]]

\* What a call owes is subscribed, and served or still in its audience.
DueInv ==
  \A s \in Sender : \A c \in due[s] :
    /\ pc[s] \in {"called", "locked", "sending"} => sub[c] \in {"inbox", "member"}
    /\ pc[s] = "sending" => c \in audience \/ s \in Delivered(c)
    /\ pc[s] = "done" => s \in Delivered(c)

IInv == TypeOK /\ LockInv /\ TicketInv /\ AudienceInv /\ GotInv /\ DueInv

\* Init establishes the invariant.
LEMMA InitIInv == Init => IInv
  BY DEF Init, IInv, TypeOK, LockInv, TicketInv, AudienceInv, GotInv, DueInv, SubState, SendState

\* Steps of subscribers change neither calls nor what was delivered.
LEMMA SubscriberKeeps ==
  ASSUME IInv, NEW c \in Chan, Subscribe(c) \/ Unsubscribe(c) \/ Leave(c) \/ Receive(c)
  PROVE  IInv'
<1>1. UNCHANGED <<pc, ticket, turn, got>>
  BY DEF Subscribe, Unsubscribe, Leave, Receive
<1>2. TypeOK'
  <2>1. CASE Subscribe(c)
    BY <2>1 DEF IInv, TypeOK, SubState, Subscribe
  <2>2. CASE Unsubscribe(c)
    BY <2>2 DEF IInv, TypeOK, SubState, Unsubscribe
  <2>3. CASE Leave(c)
    BY <2>3 DEF IInv, TypeOK, SubState, Leave
  <2>4. CASE Receive(c)
    BY <2>4 DEF IInv, TypeOK, Receive
  <2> QED BY <2>1, <2>2, <2>3, <2>4
<1>3. LockInv' /\ TicketInv'
  BY <1>1 DEF IInv, LockInv, TicketInv
<1>4. audience' \subseteq audience
  BY DEF Subscribe, Unsubscribe, Leave, Receive
<1>5. AudienceInv' /\ GotInv'
  BY <1>1, <1>4 DEF IInv, AudienceInv, GotInv
<1>6. DueInv'
  <2>1. \A d \in Chan : Delivered(d)' = Delivered(d)
    BY <1>1 DEF Delivered
  <2>2. CASE Subscribe(c)
    BY <2>1, <2>2 DEF IInv, TypeOK, DueInv, Subscribe
  <2>3. CASE Unsubscribe(c)
    BY <2>1, <2>3 DEF IInv, TypeOK, DueInv, Unsubscribe
  <2>4. CASE Leave(c)
    BY <2>1, <2>4 DEF IInv, TypeOK, DueInv, Leave
  <2>5. CASE Receive(c)
    BY <2>1, <2>5 DEF IInv, TypeOK, DueInv, Receive
  <2> QED BY <2>2, <2>3, <2>4, <2>5
<1> QED BY <1>2, <1>3, <1>5, <1>6 DEF IInv

\* A call starts.
LEMMA CallKeeps ==
  ASSUME IInv, NEW s \in Sender, Call(s)
  PROVE  IInv'
<1> USE DEF IInv, Call
<1>1. TypeOK'
  BY DEF TypeOK, SendState
<1>2. LockInv' /\ TicketInv' /\ AudienceInv'
  BY DEF TypeOK, LockInv, TicketInv, AudienceInv
<1>3. GotInv'
  BY DEF TypeOK, GotInv
<1>4. \A d \in Chan : Delivered(d)' = Delivered(d)
  BY DEF Delivered
<1>5. DueInv'
  BY <1>4 DEF TypeOK, DueInv
<1> QED BY <1>1, <1>2, <1>3, <1>5

\* A call gets the send lock and the next ticket.
LEMMA LockKeeps ==
  ASSUME IInv, NEW s \in Sender, Lock(s)
  PROVE  IInv'
<1> USE DEF IInv, Lock, Unlocked
<1>1. TypeOK'
  BY DEF TypeOK, SendState
<1>2. LockInv' /\ AudienceInv'
  BY DEF TypeOK, LockInv, AudienceInv
<1>3. TicketInv'
  BY DEF TypeOK, TicketInv
<1>4. GotInv'
  <2>1. \A d \in Chan : \A i \in 1..Len(got[d]) : got[d][i] \in Sender /\ got[d][i] # s
    BY DEF TypeOK, GotInv
  <2>2. \A t \in Sender : t # s => ticket'[t] = ticket[t] /\ pc'[t] = pc[t]
    BY DEF TypeOK
  <2> QED BY <2>1, <2>2 DEF GotInv
<1>5. \A d \in Chan : Delivered(d)' = Delivered(d)
  BY DEF Delivered
<1>6. DueInv'
  BY <1>5 DEF TypeOK, DueInv
<1> QED BY <1>1, <1>2, <1>3, <1>4, <1>6

\* The inbox joins; whatever the channels hold is of finished calls.
LEMMA GatherKeeps ==
  ASSUME IInv, NEW s \in Sender, Gather(s)
  PROVE  IInv'
<1> USE DEF IInv, Gather
<1>1. TypeOK'
  BY DEF TypeOK, SendState, SubState
<1>2. LockInv' /\ TicketInv' /\ AudienceInv'
  BY DEF TypeOK, LockInv, TicketInv, AudienceInv
<1>3. GotInv'
  <2>1. \A d \in Chan : \A i \in 1..Len(got[d]) : got[d][i] \in Sender /\ pc[got[d][i]] = "done"
    BY DEF TypeOK, GotInv, LockInv
  <2>2. \A t \in Sender : t # s => pc'[t] = pc[t]
    BY DEF TypeOK
  <2> QED BY <2>1, <2>2 DEF GotInv
<1>4. \A d \in Chan : Delivered(d)' = Delivered(d)
  BY DEF Delivered
<1>5. DueInv'
  BY <1>4 DEF TypeOK, DueInv, LockInv
<1> QED BY <1>1, <1>2, <1>3, <1>5

\* The value of the sending call goes behind values with earlier tickets.
LEMMA DeliverKeeps ==
  ASSUME IInv, NEW s \in Sender, NEW c \in Chan, Deliver(s, c)
  PROVE  IInv'
<1> USE DEF IInv, Deliver
<1>1. TypeOK'
  BY DEF TypeOK
<1>2. LockInv' /\ TicketInv' /\ AudienceInv'
  BY DEF TypeOK, LockInv, TicketInv, AudienceInv
<1>3. /\ Len(got'[c]) = Len(got[c]) + 1 /\ got'[c][Len(got[c]) + 1] = s
      /\ \A i \in 1..Len(got[c]) : got'[c][i] = got[c][i]
      /\ \A d \in Chan : d # c => got'[d] = got[d]
      /\ Len(got[c]) \in Nat
  BY DEF TypeOK
<1>4. \A i \in 1..Len(got[c]) : ticket[got[c][i]] < ticket[s]
  <2>1. \A i \in 1..Len(got[c]) : got[c][i] \in Sender /\ pc[got[c][i]] = "done"
    BY DEF TypeOK, GotInv
  <2>2. ASSUME NEW t \in Sender, pc[t] = "done" PROVE ticket[t] < ticket[s]
    <3>1. t # s /\ ticket[s] = turn /\ ticket[s] # 0 /\ ticket[t] # ticket[s]
      BY <2>2 DEF TicketInv
    <3>2. ticket[t] <= turn /\ ticket[t] \in Nat /\ turn \in Nat
      BY DEF TypeOK, TicketInv
    <3> QED BY <3>1, <3>2
  <2> QED BY <2>1, <2>2
<1>5. GotInv'
  <2> SUFFICES ASSUME NEW d \in Chan
               PROVE  /\ \A i \in 1..Len(got'[d]) : pc[got'[d][i]] \in {"sending", "done"}
                      /\ d \in audience' => \A i \in 1..Len(got'[d]) : pc[got'[d][i]] = "done"
                      /\ \A i, j \in 1..Len(got'[d]) : i < j => ticket[got'[d][i]] < ticket[got'[d][j]]
    BY DEF GotInv
  <2>1. CASE d = c
    BY <1>3, <1>4, <2>1 DEF GotInv
  <2>2. CASE d # c
    BY <1>3, <2>2 DEF GotInv
  <2> QED BY <2>1, <2>2
<1>6. s \in Delivered(c)' /\ \A d \in Chan : Delivered(d) \subseteq Delivered(d)'
  <2>1. s \in Delivered(c)' /\ Delivered(c) \subseteq Delivered(c)'
    BY <1>3 DEF Delivered
  <2>2. \A d \in Chan : d # c => Delivered(d)' = Delivered(d)
    BY <1>3 DEF Delivered
  <2> QED BY <2>1, <2>2
<1>7. DueInv'
  <2> SUFFICES ASSUME NEW t \in Sender, NEW d \in due[t]
               PROVE  /\ pc[t] \in {"called", "locked", "sending"} => sub[d] \in {"inbox", "member"}
                      /\ pc[t] = "sending" => d \in audience' \/ t \in Delivered(d)'
                      /\ pc[t] = "done" => t \in Delivered(d)'
    BY DEF DueInv
  <2>1. d \in Chan
    BY DEF TypeOK
  <2>2. pc[t] = "sending" => t = s
    BY DEF LockInv
  <2> QED BY <1>6, <2>1, <2>2 DEF DueInv
<1> QED BY <1>1, <1>2, <1>5, <1>7

\* A call with nothing left to serve returns.
LEMMA ReturnKeeps ==
  ASSUME IInv, NEW s \in Sender, Return(s)
  PROVE  IInv'
<1> USE DEF IInv, Return
<1>1. TypeOK'
  BY DEF TypeOK, SendState
<1>2. LockInv' /\ TicketInv' /\ AudienceInv'
  BY DEF TypeOK, LockInv, TicketInv, AudienceInv
<1>3. GotInv'
  BY DEF TypeOK, GotInv
<1>4. \A d \in Chan : Delivered(d)' = Delivered(d)
  BY DEF Delivered
<1>5. DueInv'
  BY <1>4 DEF TypeOK, DueInv
<1> QED BY <1>1, <1>2, <1>3, <1>5

\* Every step keeps the invariant.
LEMMA NextIInv == IInv /\ [Next]_vars => IInv'
<1> SUFFICES ASSUME IInv, [Next]_vars PROVE IInv'
  OBVIOUS
<1>1. CASE UNCHANGED vars
  BY <1>1 DEF vars, IInv, TypeOK, LockInv, TicketInv, AudienceInv, GotInv, DueInv, Delivered
<1>2. ASSUME NEW c \in Chan, Subscribe(c) \/ Unsubscribe(c) \/ Leave(c) \/ Receive(c) PROVE IInv'
  BY <1>2, SubscriberKeeps
<1>3. ASSUME NEW s \in Sender, Call(s) \/ Lock(s) \/ Gather(s) \/ Return(s) PROVE IInv'
  BY <1>3, CallKeeps, LockKeeps, GatherKeeps, ReturnKeeps
<1>4. ASSUME NEW s \in Sender, NEW c \in Chan, Deliver(s, c) PROVE IInv'
  BY <1>4, DeliverKeeps
<1> QED BY <1>1, <1>2, <1>3, <1>4 DEF Next

-----------------------------------------------------------------------------
\* The inductive invariant holds in every behaviour of the feed.
THEOREM Invariance == Spec => []IInv
  BY InitIInv, NextIInv, PTL DEF Spec

\* Type correctness: only members of the feed are ever owed a value.
THEOREM TypeCorrect == Spec => []TypeOK
<1>1. IInv => TypeOK
  BY DEF IInv
<1> QED BY <1>1, Invariance, PTL

\* All subscribers see values in one order and none twice, for any number of
\* channels and concurrent Sends.
THEOREM OrderAgreed == Spec => []OneOrder
<1>1. IInv => OneOrder
  <2> SUFFICES ASSUME IInv, NEW c \in Chan, NEW d \in Chan,
                      NEW i \in 1..Len(got[c]), NEW j \in 1..Len(got[c]),
                      NEW k \in 1..Len(got[d]), NEW l \in 1..Len(got[d]),
                      got[c][i] = got[d][k], got[c][j] = got[d][l], i < j
               PROVE  k < l
    BY DEF OneOrder
  <2>1. ticket[got[c][i]] < ticket[got[c][j]]
    BY DEF IInv, GotInv
  <2>2. /\ k \in Nat /\ l \in Nat
        /\ ticket[got[d][k]] \in Nat /\ ticket[got[d][l]] \in Nat
    BY DEF IInv, TypeOK
  <2>3. l < k => ticket[got[d][l]] < ticket[got[d][k]]
    BY DEF IInv, GotInv
  <2> QED BY <2>1, <2>2, <2>3
<1> QED BY <1>1, Invariance, PTL

\* A Send that returned reached everybody it owed its value.
THEOREM AllReached == Spec => []ReachesAll
<1>1. IInv => ReachesAll
  BY DEF IInv, TypeOK, DueInv, ReachesAll
<1> QED BY <1>1, Invariance, PTL

\* Nothing is delivered outside a subscription.
THEOREM Silent == Spec => SilentUnlessSubscribed
<1>1. IInv /\ [Next]_vars => [\A c \in Chan : got'[c] # got[c] => sub[c] \in {"member", "leaving"}]_vars
  <2> SUFFICES ASSUME IInv, Next, NEW c \in Chan, got'[c] # got[c]
               PROVE  sub[c] \in {"member", "leaving"}
    OBVIOUS
  <2>1. PICK s \in Sender, d \in Chan : Deliver(s, d)
    BY DEF Next, Subscribe, Unsubscribe, Leave, Receive, Call, Lock, Gather, Return
  <2>2. d = c
    BY <2>1 DEF Deliver, IInv, TypeOK
  <2> QED BY <2>1, <2>2 DEF Deliver, IInv, TypeOK
<1> QED BY <1>1, Invariance, PTL DEF Spec, SilentUnlessSubscribed
=============================================================================
