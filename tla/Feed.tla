-------------------------------- MODULE Feed --------------------------------
(***************************************************************************)
(* event/feed.go: Feed delivers a value to all subscribed channels through *)
(* one list of select cases.  The cases a Send still has to serve are a    *)
(* prefix of the list; serving one swaps it behind the prefix, and         *)
(* Unsubscribe deletes from the list in the middle of a Send.              *)
(*                                                                         *)
(* Steps are those at which other goroutines can intervene: the two        *)
(* sections under mu, the channel operations on sendLock and removeSub,    *)
(* every attempt to send.  The case of removeSub, at index 0 of the list   *)
(* in the code, is left out of it.  An unbuffered channel is one of        *)
(* capacity 1 here: the value is with the receiver until it comes back.    *)
(***************************************************************************)
EXTENDS Integers, Sequences, SequencesExt

CONSTANTS
  Chan,       \* channels of subscribers
  Sender,     \* calls of Send
  Capacity    \* values a channel takes while its subscriber does not receive

ASSUME CapacityAssumption == Capacity \in Nat \ {0}

VARIABLES
  inbox,       \* f.inbox
  sendCases,   \* f.sendCases without the case of removeSub
  active,      \* length of the prefix "cases" of the Send in progress
  next,        \* index of its fast path
  leaving,     \* channels whose remove waits in its select
  pc,          \* progress of the calls of Send
  panicked,    \* a slice index was out of range
  due, ticket, turn,   \* history: see FeedSpec
  got, taken   \* the channels

feedVars == <<inbox, sendCases, active, next, leaving, panicked>>
vars == <<feedVars, pc, due, ticket, turn, got, taken>>

FeedTypeOK ==
  /\ inbox \in Seq(Chan) /\ sendCases \in Seq(Chan)
  /\ active \in 0..Len(sendCases) /\ next \in 1..(active + 1)
  /\ leaving \subseteq ToSet(sendCases)
  /\ panicked = FALSE

Init ==
  /\ inbox = <<>> /\ sendCases = <<>> /\ active = 0 /\ next = 1
  /\ leaving = {} /\ panicked = FALSE
  /\ pc = [s \in Sender |-> "idle"]
  /\ due = [s \in Sender |-> {}]
  /\ ticket = [s \in Sender |-> 0] /\ turn = 0
  /\ got = [c \in Chan |-> <<>>]
  /\ taken = [c \in Chan |-> 0]

Room(c)  == Len(got[c]) - taken[c] < Capacity
Unlocked == \A s \in Sender : pc[s] \notin {"locked", "try", "select"}
Subscribed == ToSet(inbox) \cup (ToSet(sendCases) \ leaving)

\* find: the index of the first case of a channel, 0 when there is none.
Find(cases, c) == IF c \in ToSet(cases) THEN CHOOSE i \in 1..Len(cases) :
                        cases[i] = c /\ \A j \in 1..(i-1) : cases[j] # c
                  ELSE 0

\* deactivate: swap with the last case of the prefix of length n.
Swap(cases, i, n) == [cases EXCEPT ![i] = cases[n], ![n] = cases[i]]

-----------------------------------------------------------------------------
(* Subscribe and remove *)

Subscribe(c) ==
  /\ c \notin ToSet(inbox) \cup ToSet(sendCases)
  /\ inbox' = Append(inbox, c)
  /\ UNCHANGED <<sendCases, active, next, leaving, panicked, pc, due, ticket, turn, got, taken>>

\* The section of remove under mu: a channel in the inbox is deleted there.
Unsubscribe(c) ==
  /\ c \in Subscribed
  /\ IF Find(inbox, c) # 0 THEN inbox' = RemoveAt(inbox, Find(inbox, c)) /\ leaving' = leaving
                           ELSE inbox' = inbox /\ leaving' = leaving \cup {c}
  /\ due' = [s \in Sender |-> due[s] \ {c}]
  /\ UNCHANGED <<sendCases, active, next, panicked, pc, ticket, turn, got, taken>>

\* The prefix loses a case that was still in it.
Shrunk(index) == IF index <= active THEN active - 1 ELSE active

\* delete panics when the channel is not in the list.
Delete(c) ==
  LET index == Find(sendCases, c)
  IN /\ leaving' = leaving \ {c}
     /\ IF index = 0 THEN panicked' = TRUE /\ UNCHANGED <<sendCases, active>>
        ELSE /\ sendCases' = RemoveAt(sendCases, index)
             /\ active' = Shrunk(index)
             /\ UNCHANGED panicked

\* No Send is in progress: remove has the send lock.
RemoveLocked(c) ==
  /\ c \in leaving /\ Unlocked
  /\ Delete(c)
  /\ UNCHANGED <<inbox, next, pc, due, ticket, turn, got, taken>>

\* A subscriber takes a value from its channel.
Receive(c) ==
  /\ taken[c] < Len(got[c])
  /\ taken' = [taken EXCEPT ![c] = @ + 1]
  /\ UNCHANGED <<feedVars, pc, due, ticket, turn, got>>

-----------------------------------------------------------------------------
(* Send *)

Call(s) ==
  /\ pc[s] = "idle"
  /\ pc' = [pc EXCEPT ![s] = "called"]
  /\ due' = [due EXCEPT ![s] = Subscribed]
  /\ UNCHANGED <<feedVars, ticket, turn, got, taken>>

BugLock(s) ==
  /\ pc[s] = "called" /\ \A t \in Sender : pc[t] # "locked"
  /\ pc' = [pc EXCEPT ![s] = "locked"]
  /\ turn' = turn + 1 /\ ticket' = [ticket EXCEPT ![s] = turn + 1]
  /\ UNCHANGED <<feedVars, due, got, taken>>
Lock(s) ==
  /\ pc[s] = "called" /\ Unlocked
  /\ pc' = [pc EXCEPT ![s] = "locked"]
  /\ turn' = turn + 1 /\ ticket' = [ticket EXCEPT ![s] = turn + 1]
  /\ UNCHANGED <<feedVars, due, got, taken>>

\* Add new cases from the inbox, under mu.
BugGather(s) ==
  /\ pc[s] = "locked"
  /\ sendCases' = sendCases \o inbox /\ inbox' = <<>>
  /\ active' = Len(sendCases) /\ next' = 1
  /\ pc' = [pc EXCEPT ![s] = "try"]
  /\ UNCHANGED <<leaving, panicked, due, ticket, turn, got, taken>>
Gather(s) ==
  /\ pc[s] = "locked"
  /\ sendCases' = sendCases \o inbox /\ inbox' = <<>>
  /\ active' = Len(sendCases) + Len(inbox) /\ next' = 1
  /\ pc' = [pc EXCEPT ![s] = "try"]
  /\ UNCHANGED <<leaving, panicked, due, ticket, turn, got, taken>>

\* A send on case i succeeds.
BugServe(s, i) ==
  /\ Room(sendCases[i])
  /\ got' = [got EXCEPT ![sendCases[i]] = Append(@, s)]
  /\ sendCases' = sendCases
  /\ active' = active - 1
Serve(s, i) ==
  /\ Room(sendCases[i])
  /\ got' = [got EXCEPT ![sendCases[i]] = Append(@, s)]
  /\ sendCases' = Swap(sendCases, i, active)
  /\ active' = active - 1

\* The fast path: TrySend case after case.
TrySend(s) ==
  /\ pc[s] = "try" /\ next <= active
  /\ \/ Serve(s, next) /\ UNCHANGED next
     \/ ~Room(sendCases[next]) /\ next' = next + 1 /\ UNCHANGED <<got, sendCases, active>>
  /\ UNCHANGED <<inbox, leaving, panicked, pc, due, ticket, turn, taken>>

\* Its end: all served, hand off the send lock, or block in the select.
Return(s) ==
  /\ pc[s] = "try" /\ active = 0
  /\ pc' = [pc EXCEPT ![s] = "done"]
  /\ UNCHANGED <<feedVars, due, ticket, turn, got, taken>>

Block(s) ==
  /\ pc[s] = "try" /\ next > active /\ active > 0
  /\ pc' = [pc EXCEPT ![s] = "select"]
  /\ UNCHANGED <<feedVars, due, ticket, turn, got, taken>>

\* The select: some channel has room, ...
SelectSend(s) ==
  /\ pc[s] = "select"
  /\ \E i \in 1..active : Serve(s, i)
  /\ pc' = [pc EXCEPT ![s] = "try"] /\ next' = 1
  /\ UNCHANGED <<inbox, leaving, panicked, due, ticket, turn, taken>>

BugDeaf(s, c) == FALSE
BugStaysBlocked(s, c) ==
  /\ pc[s] = "select" /\ c \in leaving
  /\ Delete(c)
  /\ UNCHANGED <<pc, next, inbox, due, ticket, turn, got, taken>>

\* ... or remove of a channel sends on removeSub.
SelectRemove(s, c) ==
  /\ pc[s] = "select" /\ c \in leaving
  /\ Delete(c)
  /\ pc' = [pc EXCEPT ![s] = "try"] /\ next' = 1
  /\ UNCHANGED <<inbox, due, ticket, turn, got, taken>>

SenderNext(s) == Lock(s) \/ Gather(s) \/ TrySend(s) \/ Return(s) \/ Block(s) \/ SelectSend(s)
Leave(c) == RemoveLocked(c) \/ \E s \in Sender : SelectRemove(s, c)

Next ==
  /\ ~panicked
  /\ \/ \E c \in Chan : Subscribe(c) \/ Unsubscribe(c) \/ Leave(c) \/ Receive(c)
     \/ \E s \in Sender : Call(s) \/ SenderNext(s)

Spec == Init /\ [][Next]_vars

\* Goroutines that can run do, and select takes a case that stays ready.  Nothing
\* is assumed of subscribers.
Fairness ==
  /\ \A s \in Sender : WF_vars(~panicked /\ SenderNext(s))
  /\ \A c \in Chan : WF_vars(~panicked /\ Leave(c))

FairSpec == Spec /\ Fairness

\* Subscribers that keep receiving.
FairReceivers == \A c \in Chan : WF_vars(~panicked /\ Receive(c))

-----------------------------------------------------------------------------
(* Properties *)

\* FeedSpec's view of the lists.
SubOf == [c \in Chan |-> IF c \in ToSet(inbox) THEN "inbox"
                         ELSE IF c \in leaving THEN "leaving"
                         ELSE IF c \in ToSet(sendCases) THEN "member" ELSE "none"]
Unserved == IF \E s \in Sender : pc[s] \in {"try", "select"}
              THEN ToSet(SubSeq(sendCases, 1, active)) ELSE {}
PcOf == [s \in Sender |-> IF pc[s] \in {"try", "select"} THEN "sending" ELSE pc[s]]

Abstract == INSTANCE FeedSpec WITH sub <- SubOf, audience <- Unserved, pc <- PcOf

\* Swapping, shrinking and deleting in the list of cases implements delivery to
\* a set of channels: nobody is skipped, served twice or served after it left.
FeedImplements == Abstract!Spec

\* Two subscribers get the values of concurrent Sends in the same order, and each
\* value once, also when one was served on the fast path and one in the select.
OneOrder == Abstract!OneOrder

\* A Send that returned reached every channel subscribed when it was called and
\* not cancelled since, although the list of cases is reordered and cut under it.
ReachesAll == Abstract!ReachesAll

\* Unsubscribe returns whatever its own and the other subscribers do: also when a
\* Send is stuck on channels that nobody receives from.
UnsubscribeReturns == \A c \in Chan : []<>(c \notin leaving)

\* When subscribers keep receiving every Send returns.
SendReturns == FairReceivers => \A s \in Sender : []<>(pc[s] \in {"idle", "done"})
=============================================================================
