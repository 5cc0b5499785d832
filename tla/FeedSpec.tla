------------------------------ MODULE FeedSpec ------------------------------
(***************************************************************************)
(* What event.Feed (event/feed.go) promises, without its lists of select   *)
(* cases: a value sent is delivered once to every subscribed channel,      *)
(* values of concurrent Sends one after the other.  Feed implements it.    *)
(*                                                                         *)
(* A channel has one subscription at a time.  A call of Send is identified *)
(* with the value it sends.                                                *)
(***************************************************************************)
EXTENDS Integers, Sequences

CONSTANTS
  Chan,       \* channels of subscribers
  Sender,     \* calls of Send
  Capacity    \* values a channel takes while its subscriber does not receive

VARIABLES
  sub,        \* subscription of a channel
  audience,   \* the channels the value being sent still has to reach
  pc,         \* progress of the calls of Send
  due,        \* the channels each Send owes its value: subscribed when it was called
  ticket,     \* the order in which calls got the send lock
  turn,       \* the last of these tickets
  got,        \* the values delivered on each channel
  taken       \* how many of them its subscriber received

vars == <<sub, audience, pc, due, ticket, turn, got, taken>>

SubState  == {"none", "inbox", "member", "leaving"}
SendState == {"idle", "called", "locked", "sending", "done"}

TypeOK ==
  /\ sub \in [Chan -> SubState]
  /\ audience \in SUBSET {c \in Chan : sub[c] \in {"member", "leaving"}}
  /\ pc \in [Sender -> SendState]
  /\ due \in [Sender -> SUBSET Chan]
  /\ ticket \in [Sender -> Nat] /\ turn \in Nat
  /\ got \in [Chan -> Seq(Sender)]
  /\ taken \in [Chan -> Nat]

Init ==
  /\ sub = [c \in Chan |-> "none"]
  /\ audience = {}
  /\ pc = [s \in Sender |-> "idle"]
  /\ due = [s \in Sender |-> {}]
  /\ ticket = [s \in Sender |-> 0] /\ turn = 0
  /\ got = [c \in Chan |-> <<>>]
  /\ taken = [c \in Chan |-> 0]

Room(c) == Len(got[c]) - taken[c] < Capacity

\* The send lock is free.
Unlocked == \A s \in Sender : pc[s] \notin {"locked", "sending"}

-----------------------------------------------------------------------------
(* Subscribers *)

Subscribe(c) ==
  /\ sub[c] = "none"
  /\ sub' = [sub EXCEPT ![c] = "inbox"]
  /\ UNCHANGED <<audience, pc, due, ticket, turn, got, taken>>

\* Unsubscribe: at once while the channel is in the inbox, otherwise ...
Unsubscribe(c) ==
  /\ sub[c] \in {"inbox", "member"}
  /\ sub' = [sub EXCEPT ![c] = IF @ = "inbox" THEN "none" ELSE "leaving"]
  /\ due' = [s \in Sender |-> due[s] \ {c}]
  /\ UNCHANGED <<audience, pc, ticket, turn, got, taken>>

\* ... when no Send runs, or the one that runs is interrupted.
Leave(c) ==
  /\ sub[c] = "leaving" /\ \A s \in Sender : pc[s] # "locked"
  /\ sub' = [sub EXCEPT ![c] = "none"]
  /\ audience' = audience \ {c}
  /\ UNCHANGED <<pc, due, ticket, turn, got, taken>>

Receive(c) ==
  /\ taken[c] < Len(got[c])
  /\ taken' = [taken EXCEPT ![c] = @ + 1]
  /\ UNCHANGED <<sub, audience, pc, due, ticket, turn, got>>

-----------------------------------------------------------------------------
(* Send *)

Call(s) ==
  /\ pc[s] = "idle"
  /\ pc' = [pc EXCEPT ![s] = "called"]
  /\ due' = [due EXCEPT ![s] = {c \in Chan : sub[c] \in {"inbox", "member"}}]
  /\ UNCHANGED <<sub, audience, ticket, turn, got, taken>>

Lock(s) ==
  /\ pc[s] = "called" /\ Unlocked
  /\ pc' = [pc EXCEPT ![s] = "locked"]
  /\ turn' = turn + 1 /\ ticket' = [ticket EXCEPT ![s] = turn + 1]
  /\ UNCHANGED <<sub, audience, due, got, taken>>

\* Channels of the inbox join; all members are owed the value.
Gather(s) ==
  /\ pc[s] = "locked"
  /\ pc' = [pc EXCEPT ![s] = "sending"]
  /\ sub' = [c \in Chan |-> IF sub[c] = "inbox" THEN "member" ELSE sub[c]]
  /\ audience' = {c \in Chan : sub[c] # "none"}
  /\ UNCHANGED <<due, ticket, turn, got, taken>>

Deliver(s, c) ==
  /\ pc[s] = "sending" /\ c \in audience /\ Room(c)
  /\ got' = [got EXCEPT ![c] = Append(@, s)]
  /\ audience' = audience \ {c}
  /\ UNCHANGED <<sub, pc, due, ticket, turn, taken>>

Return(s) ==
  /\ pc[s] = "sending" /\ audience = {}
  /\ pc' = [pc EXCEPT ![s] = "done"]
  /\ UNCHANGED <<sub, audience, due, ticket, turn, got, taken>>

Next ==
  \/ \E c \in Chan : Subscribe(c) \/ Unsubscribe(c) \/ Leave(c) \/ Receive(c)
  \/ \E s \in Sender : \/ Call(s) \/ Lock(s) \/ Gather(s) \/ Return(s)
                       \/ \E c \in Chan : Deliver(s, c)

Spec == Init /\ [][Next]_vars

-----------------------------------------------------------------------------
(* Properties *)

Delivered(c) == {got[c][i] : i \in 1..Len(got[c])}

\* Subscribers agree on the order of the values they both got, and none gets a
\* value twice, however Sends, subscriptions and cancellations overlap.
OneOrder ==
  \A c, d \in Chan : \A i, j \in 1..Len(got[c]) : \A k, l \in 1..Len(got[d]) :
    got[c][i] = got[d][k] /\ got[c][j] = got[d][l] /\ i < j => k < l

\* A Send that returned reached every channel that was subscribed when it was
\* called and whose subscription was not cancelled: "Values sent to a Feed are
\* delivered to all subscribed channels" (event/feed.go:28).
ReachesAll == \A s \in Sender : pc[s] = "done" => due[s] \subseteq {c \in Chan : s \in Delivered(c)}

\* Nothing is delivered before a subscription or after Unsubscribe returned: "until
\* the subscription is canceled" (event/feed.go:68-69).
SilentUnlessSubscribed == [][\A c \in Chan : got'[c] # got[c] => sub[c] \in {"member", "leaving"}]_vars
=============================================================================
