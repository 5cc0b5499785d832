--------------------------- MODULE FeedListProofs ---------------------------
(***************************************************************************)
(* Proof that Feed, with its inbox, its list of select cases and their     *)
(* active prefix, implements FeedSpec, for any channels, calls of Send and *)
(* capacity; what FeedProofs shows for FeedSpec then holds for Feed.       *)
(*                                                                         *)
(* The lists never hold a channel twice, which is what find, deactivate    *)
(* and delete rely on; the active prefix is empty unless a Send is serving *)
(* cases, so that it is the audience of FeedSpec in every state.           *)
(***************************************************************************)
EXTENDS Feed, SequenceTheorems, TLAPS

-----------------------------------------------------------------------------
(* The operations on the list of cases                                     *)

Distinct(s) == \A i, j \in 1..Len(s) : s[i] = s[j] => i = j

\* The channels of the first n cases.
First(s, n) == {s[i] : i \in 1..n}

\* All channels of a list are those of its first Len(s) cases.
LEMMA AllFirst ==
  ASSUME NEW s \in Seq(Chan)
  PROVE  ToSet(s) = First(s, Len(s)) /\ Len(s) \in Nat /\ ToSet(s) \subseteq Chan
  BY DEF ToSet, First

\* The prefix "cases" of the list.
LEMMA PrefixFirst ==
  ASSUME NEW s \in Seq(Chan), NEW n \in 0..Len(s)
  PROVE  ToSet(SubSeq(s, 1, n)) = First(s, n)
<1>1. n \in Int /\ 1 \in Int /\ \A i \in 1..n : s[i] \in Chan
  OBVIOUS
<1>2. /\ SubSeq(s, 1, n) \in Seq(Chan)
      /\ Len(SubSeq(s, 1, n)) = n
      /\ \A i \in 1..n : SubSeq(s, 1, n)[i] = s[i]
  BY <1>1
<1>3. DOMAIN SubSeq(s, 1, n) = 1..n
  BY <1>2
<1> QED BY <1>2, <1>3 DEF ToSet, First

\* caseList.find.
LEMMA Finds ==
  ASSUME NEW s \in Seq(Chan), Distinct(s), NEW c
  PROVE  /\ c \in ToSet(s) => Find(s, c) \in 1..Len(s) /\ s[Find(s, c)] = c
         /\ c \notin ToSet(s) => Find(s, c) = 0
<1>1. ASSUME c \in ToSet(s) PROVE Find(s, c) \in 1..Len(s) /\ s[Find(s, c)] = c
  <2>1. PICK i \in 1..Len(s) : s[i] = c
    BY <1>1 DEF ToSet
  <2>2. \A j \in 1..(i-1) : s[j] # c
    BY <2>1 DEF Distinct
  <2> DEFINE P(k) == s[k] = c /\ \A j \in 1..(k-1) : s[j] # c
  <2>3. \E k \in 1..Len(s) : P(k)
    BY <2>1, <2>2
  <2>4. Find(s, c) = CHOOSE k \in 1..Len(s) : P(k)
    BY <1>1 DEF Find
  <2> QED BY <2>3, <2>4
<1> QED BY <1>1 DEF Find

\* caseList.delete: the cases behind it move up by one place.
LEMMA Removes ==
  ASSUME NEW s \in Seq(Chan), NEW i \in 1..Len(s)
  PROVE  /\ RemoveAt(s, i) \in Seq(Chan)
         /\ Len(RemoveAt(s, i)) = Len(s) - 1
         /\ \A j \in 1..(Len(s) - 1) : RemoveAt(s, i)[j] = IF j < i THEN s[j] ELSE s[j + 1]
<1> DEFINE a == SubSeq(s, 1, i - 1)
           b == SubSeq(s, i + 1, Len(s))
<1>1. Len(s) \in Nat /\ i \in Nat /\ i >= 1 /\ i <= Len(s)
  OBVIOUS
<1>2. a \in Seq(Chan) /\ Len(a) = i - 1 /\ \A j \in 1..(i - 1) : a[j] = s[j]
  OBVIOUS
<1>3. b \in Seq(Chan) /\ Len(b) = Len(s) - i /\ \A j \in 1..(Len(s) - i) : b[j] = s[i + j]
  OBVIOUS
<1>4. /\ a \o b \in Seq(Chan) /\ Len(a \o b) = Len(a) + Len(b)
      /\ \A j \in 1 .. Len(a) + Len(b) :
            (a \o b)[j] = IF j <= Len(a) THEN a[j] ELSE b[j - Len(a)]
  BY <1>2, <1>3, ConcatProperties
<1>5. RemoveAt(s, i) = a \o b
  BY DEF RemoveAt
<1> HIDE DEF a, b
<1>6. Len(a) + Len(b) = Len(s) - 1
  BY <1>1, <1>2, <1>3
<1>7. ASSUME NEW j \in 1..(Len(s) - 1)
      PROVE  (a \o b)[j] = IF j < i THEN s[j] ELSE s[j + 1]
  <2>1. CASE j < i
    BY <1>1, <1>2, <1>4, <1>6, <2>1
  <2>2. CASE ~(j < i)
    <3>1. (a \o b)[j] = b[j - (i - 1)] /\ j - (i - 1) \in 1..(Len(s) - i)
      BY <1>1, <1>2, <1>4, <1>6, <2>2
    <3>2. i + (j - (i - 1)) = j + 1
      BY <1>1
    <3> QED BY <1>3, <2>2, <3>1, <3>2
  <2> QED BY <2>1, <2>2
<1> QED BY <1>4, <1>5, <1>6, <1>7

\* Of the first n cases, those that are left are the first n or n - 1 afterwards.
LEMMA RemovesOne ==
  ASSUME NEW s \in Seq(Chan), Distinct(s), NEW i \in 1..Len(s)
  PROVE  /\ RemoveAt(s, i) \in Seq(Chan) /\ Len(RemoveAt(s, i)) = Len(s) - 1
         /\ Distinct(RemoveAt(s, i))
         /\ ToSet(RemoveAt(s, i)) = ToSet(s) \ {s[i]}
         /\ \A n \in 0..Len(s) :
               First(RemoveAt(s, i), IF i <= n THEN n - 1 ELSE n) = First(s, n) \ {s[i]}
<1> DEFINE r == RemoveAt(s, i)
<1>1. /\ r \in Seq(Chan) /\ Len(r) = Len(s) - 1 /\ Len(s) \in Nat
      /\ \A j \in 1..(Len(s) - 1) : r[j] = IF j < i THEN s[j] ELSE s[j + 1]
  BY Removes
<1> HIDE DEF r
<1>2. Distinct(r)
  BY <1>1 DEF Distinct
<1>3. ASSUME NEW n \in 0..Len(s)
      PROVE  First(r, IF i <= n THEN n - 1 ELSE n) = First(s, n) \ {s[i]}
  <2> DEFINE m == IF i <= n THEN n - 1 ELSE n
  <2>1. m \in 0..(Len(s) - 1)
    BY <1>1
  <2>2. ASSUME NEW c \in First(r, m) PROVE c \in First(s, n) \ {s[i]}
    <3>1. PICK j \in 1..m : r[j] = c
      BY <2>2 DEF First
    <3>2. CASE j < i
      <4>1. c = s[j] /\ j \in 1..n /\ j \in 1..Len(s) /\ j # i
        BY <1>1, <2>1, <3>1, <3>2
      <4>2. s[j] # s[i]
        BY <4>1 DEF Distinct
      <4> QED BY <4>1, <4>2 DEF First
    <3>3. CASE ~(j < i)
      <4>1. c = s[j + 1] /\ j + 1 \in 1..n /\ j + 1 \in 1..Len(s) /\ j + 1 # i
        BY <1>1, <2>1, <3>1, <3>3
      <4>2. s[j + 1] # s[i]
        BY <4>1 DEF Distinct
      <4> QED BY <4>1, <4>2 DEF First
    <3> QED BY <3>2, <3>3
  <2>3. ASSUME NEW c \in First(s, n) \ {s[i]} PROVE c \in First(r, m)
    <3>1. PICK j \in 1..n : s[j] = c
      BY <2>3 DEF First
    <3>2. j # i
      BY <2>3, <3>1
    <3>3. CASE j < i
      <4>1. r[j] = c /\ j \in 1..m
        BY <1>1, <2>1, <3>1, <3>3
      <4> QED BY <4>1 DEF First
    <3>4. CASE j > i
      <4>1. r[j - 1] = c /\ j - 1 \in 1..m
        BY <1>1, <2>1, <3>1, <3>4
      <4> QED BY <4>1 DEF First
    <3> QED BY <3>2, <3>3, <3>4
  <2> QED BY <2>2, <2>3
<1>4. ToSet(r) = ToSet(s) \ {s[i]}
  <2>1. First(r, Len(s) - 1) = First(s, Len(s)) \ {s[i]}
    BY <1>1, <1>3
  <2> QED BY <1>1, <2>1, AllFirst
<1> QED BY <1>1, <1>2, <1>3, <1>4 DEF r

\* caseList.deactivate: the case that was served leaves the prefix.
LEMMA Swaps ==
  ASSUME NEW s \in Seq(Chan), Distinct(s), NEW n \in 1..Len(s), NEW i \in 1..n
  PROVE  /\ Swap(s, i, n) \in Seq(Chan) /\ Len(Swap(s, i, n)) = Len(s)
         /\ Distinct(Swap(s, i, n))
         /\ ToSet(Swap(s, i, n)) = ToSet(s)
         /\ First(Swap(s, i, n), n - 1) = First(s, n) \ {s[i]}
<1> DEFINE t == Swap(s, i, n)
<1>1. Len(s) \in Nat /\ n \in 1..Len(s) /\ i \in 1..Len(s) /\ n \in Nat
  OBVIOUS
<1>2. /\ t \in Seq(Chan) /\ Len(t) = Len(s)
      /\ t[n] = s[i] /\ t[i] = s[n]
      /\ \A j \in 1..Len(s) : j # i /\ j # n => t[j] = s[j]
  BY <1>1 DEF Swap
<1> HIDE DEF t
<1>3. Distinct(t)
  BY <1>1, <1>2 DEF Distinct
<1>4. First(t, Len(s)) = First(s, Len(s))
  <2>1. ASSUME NEW c \in First(t, Len(s)) PROVE c \in First(s, Len(s))
    BY <1>1, <1>2, <2>1 DEF First
  <2>2. ASSUME NEW c \in First(s, Len(s)) PROVE c \in First(t, Len(s))
    BY <1>1, <1>2, <2>2 DEF First
  <2> QED BY <2>1, <2>2
<1>5. First(t, n - 1) = First(s, n) \ {s[i]}
  <2>1. ASSUME NEW c \in First(t, n - 1) PROVE c \in First(s, n) \ {s[i]}
    <3>1. PICK j \in 1..(n - 1) : t[j] = c
      BY <2>1 DEF First
    <3>2. j \in 1..n /\ j \in 1..Len(s) /\ j # n
      BY <1>1
    <3>3. CASE j = i
      <4>1. c = s[n] /\ s[n] # s[i]
        BY <1>1, <1>2, <3>1, <3>2, <3>3 DEF Distinct
      <4> QED BY <1>1, <4>1 DEF First
    <3>4. CASE j # i
      <4>1. c = s[j] /\ s[j] # s[i]
        BY <1>1, <1>2, <3>1, <3>2, <3>4 DEF Distinct
      <4> QED BY <3>2, <4>1 DEF First
    <3> QED BY <3>3, <3>4
  <2>2. ASSUME NEW c \in First(s, n) \ {s[i]} PROVE c \in First(t, n - 1)
    <3>1. PICK j \in 1..n : s[j] = c
      BY <2>2 DEF First
    <3>2. j # i /\ j \in 1..Len(s)
      BY <1>1, <2>2, <3>1
    <3>3. CASE j = n
      <4>1. t[i] = c /\ i \in 1..(n - 1)
        BY <1>1, <1>2, <3>1, <3>2, <3>3
      <4> QED BY <4>1 DEF First
    <3>4. CASE j # n
      <4>1. t[j] = c /\ j \in 1..(n - 1)
        BY <1>1, <1>2, <3>1, <3>2, <3>4
      <4> QED BY <4>1 DEF First
    <3> QED BY <3>3, <3>4
  <2> QED BY <2>1, <2>2
<1>6. ToSet(t) = ToSet(s)
  BY <1>2, <1>4, AllFirst
<1> QED BY <1>2, <1>3, <1>5, <1>6 DEF t

\* The inbox is appended to the list of cases.
LEMMA Joins ==
  ASSUME NEW s \in Seq(Chan), NEW t \in Seq(Chan), Distinct(s), Distinct(t),
         ToSet(s) \cap ToSet(t) = {}
  PROVE  /\ s \o t \in Seq(Chan) /\ Len(s \o t) = Len(s) + Len(t)
         /\ Distinct(s \o t)
         /\ ToSet(s \o t) = ToSet(s) \cup ToSet(t)
<1> DEFINE r == s \o t
<1>1. /\ r \in Seq(Chan) /\ Len(r) = Len(s) + Len(t) /\ Len(s) \in Nat /\ Len(t) \in Nat
      /\ \A i \in 1 .. Len(s) + Len(t) : r[i] = IF i <= Len(s) THEN s[i] ELSE t[i - Len(s)]
  BY ConcatProperties
<1>2. ASSUME NEW i \in 1..Len(s), NEW j \in 1..Len(t) PROVE s[i] # t[j]
  <2>1. s[i] \in ToSet(s) /\ t[j] \in ToSet(t)
    BY DEF ToSet
  <2> QED BY <2>1
<1> HIDE DEF r
<1>3. Distinct(r)
  <2> SUFFICES ASSUME NEW i \in 1..Len(r), NEW j \in 1..Len(r), r[i] = r[j] PROVE i = j
    BY DEF Distinct
  <2>1. CASE i <= Len(s) /\ j <= Len(s)
    BY <1>1, <2>1 DEF Distinct
  <2>2. CASE i > Len(s) /\ j > Len(s)
    <3>1. i - Len(s) \in 1..Len(t) /\ j - Len(s) \in 1..Len(t) /\ t[i - Len(s)] = t[j - Len(s)]
      BY <1>1, <2>2
    <3>2. i - Len(s) = j - Len(s)
      BY <3>1 DEF Distinct
    <3> QED BY <1>1, <3>2
  <2>3. CASE i <= Len(s) /\ j > Len(s)
    <3>1. i \in 1..Len(s) /\ j - Len(s) \in 1..Len(t) /\ s[i] = t[j - Len(s)]
      BY <1>1, <2>3
    <3> QED BY <1>2, <3>1
  <2>4. CASE i > Len(s) /\ j <= Len(s)
    <3>1. j \in 1..Len(s) /\ i - Len(s) \in 1..Len(t) /\ s[j] = t[i - Len(s)]
      BY <1>1, <2>4
    <3> QED BY <1>2, <3>1
  <2> QED BY <1>1, <2>1, <2>2, <2>3, <2>4
<1>4. ToSet(r) = ToSet(s) \cup ToSet(t)
  <2>1. ASSUME NEW c \in ToSet(r) PROVE c \in ToSet(s) \cup ToSet(t)
    <3>1. PICK i \in 1..Len(r) : r[i] = c
      BY <1>1, <2>1 DEF ToSet
    <3>2. CASE i <= Len(s)
      BY <1>1, <3>1, <3>2 DEF ToSet
    <3>3. CASE i > Len(s)
      <4>1. i - Len(s) \in 1..Len(t) /\ t[i - Len(s)] = c
        BY <1>1, <3>1, <3>3
      <4> QED BY <4>1 DEF ToSet
    <3> QED BY <1>1, <3>2, <3>3
  <2>2. ASSUME NEW c \in ToSet(s) PROVE c \in ToSet(r)
    <3>1. PICK i \in 1..Len(s) : s[i] = c
      BY <2>2 DEF ToSet
    <3>2. i \in 1..Len(r) /\ r[i] = c
      BY <1>1, <3>1
    <3> QED BY <1>1, <3>2 DEF ToSet
  <2>3. ASSUME NEW c \in ToSet(t) PROVE c \in ToSet(r)
    <3>1. PICK i \in 1..Len(t) : t[i] = c
      BY <2>3 DEF ToSet
    <3>2. /\ i + Len(s) \in 1 .. Len(s) + Len(t) /\ ~(i + Len(s) <= Len(s))
          /\ (i + Len(s)) - Len(s) = i
      BY <1>1
    <3>3. i + Len(s) \in 1..Len(r) /\ r[i + Len(s)] = c
      BY <1>1, <3>1, <3>2
    <3> QED BY <1>1, <3>3 DEF ToSet
  <2> QED BY <2>1, <2>2, <2>3
<1> QED BY <1>1, <1>3, <1>4 DEF r

\* A channel that is in no list goes to the end of the inbox.
LEMMA AppendsOne ==
  ASSUME NEW s \in Seq(Chan), Distinct(s), NEW c \in Chan, c \notin ToSet(s)
  PROVE  /\ Append(s, c) \in Seq(Chan) /\ Distinct(Append(s, c))
         /\ ToSet(Append(s, c)) = ToSet(s) \cup {c}
<1>1. /\ Len(s) \in Nat /\ Append(s, c) \in Seq(Chan) /\ Len(Append(s, c)) = Len(s) + 1
      /\ \A i \in 1..Len(s) : Append(s, c)[i] = s[i]
      /\ Append(s, c)[Len(s) + 1] = c
      /\ \A i \in 1..Len(s) : s[i] # c
  BY DEF ToSet
<1>2. Distinct(Append(s, c))
  BY <1>1 DEF Distinct
<1>3. ToSet(Append(s, c)) = ToSet(s) \cup {c}
  <2>1. DOMAIN Append(s, c) = 1..(Len(s) + 1) /\ DOMAIN s = 1..Len(s)
    BY <1>1
  <2>2. ASSUME NEW d \in ToSet(Append(s, c)) PROVE d \in ToSet(s) \cup {c}
    BY <1>1, <2>1, <2>2 DEF ToSet
  <2>3. ASSUME NEW d \in ToSet(s) PROVE d \in ToSet(Append(s, c))
    BY <1>1, <2>1, <2>3 DEF ToSet
  <2>4. c \in ToSet(Append(s, c))
    BY <1>1, <2>1 DEF ToSet
  <2> QED BY <2>2, <2>3, <2>4
<1> QED BY <1>1, <1>2, <1>3

-----------------------------------------------------------------------------
(* The invariant                                                           *)

\* A channel is in one place of one list; only cases of the list leave.
ListInv ==
  /\ inbox \in Seq(Chan) /\ sendCases \in Seq(Chan)
  /\ Distinct(inbox) /\ Distinct(sendCases)
  /\ ToSet(inbox) \cap ToSet(sendCases) = {}
  /\ leaving \subseteq ToSet(sendCases)

\* One call has the send lock, and cases are active only while it serves them.
CallInv ==
  /\ panicked = FALSE
  /\ active \in 0..Len(sendCases) /\ next \in 1..(active + 1)
  /\ pc \in [Sender -> {"idle", "called", "locked", "try", "select", "done"}]
  /\ \A s, t \in Sender :
       pc[s] \in {"locked", "try", "select"} /\ pc[t] \in {"locked", "try", "select"} => s = t
  /\ active > 0 => \E s \in Sender : pc[s] \in {"try", "select"}

LInv == ListInv /\ CallInv

\* The audience is the active prefix.
LEMMA Audience == LInv => Unserved = First(sendCases, active)
<1> SUFFICES ASSUME LInv PROVE Unserved = First(sendCases, active)
  OBVIOUS
<1>1. sendCases \in Seq(Chan) /\ active \in 0..Len(sendCases) /\ Len(sendCases) \in Nat
  BY DEF LInv, ListInv, CallInv
<1>2. CASE \E s \in Sender : pc[s] \in {"try", "select"}
  BY <1>1, <1>2, PrefixFirst DEF Unserved
<1>3. CASE ~\E s \in Sender : pc[s] \in {"try", "select"}
  <2>1. active = 0
    BY <1>1, <1>3 DEF LInv, CallInv
  <2>2. First(sendCases, active) = {}
    BY <2>1 DEF First
  <2> QED BY <1>3, <2>2 DEF Unserved
<1> QED BY <1>2, <1>3

\* Audience, after a step.
LEMMA AudienceAfter == LInv' => Unserved' = First(sendCases, active)'
<1>1. (LInv => Unserved = First(sendCases, active))'
  BY Audience, PTL
<1> QED BY <1>1

\* Where FeedSpec sees a channel.
LEMMA SeenAt ==
  ASSUME LInv, NEW c \in Chan
  PROVE  /\ SubOf[c] = "inbox" <=> c \in ToSet(inbox)
         /\ SubOf[c] = "leaving" <=> c \in leaving
         /\ SubOf[c] = "member" <=> c \in ToSet(sendCases) \ leaving
         /\ SubOf[c] = "none" <=> c \notin ToSet(inbox) \cup ToSet(sendCases)
  BY DEF LInv, ListInv, SubOf

-----------------------------------------------------------------------------
(* Steps of subscribers                                                    *)

\* Subscribe puts the channel into the inbox.
LEMMA SubscribeImplements ==
  ASSUME LInv, NEW c \in Chan, Subscribe(c)
  PROVE  LInv' /\ Abstract!Subscribe(c)
<1>1. /\ inbox \in Seq(Chan) /\ Distinct(inbox) /\ c \notin ToSet(inbox) \cup ToSet(sendCases)
      /\ inbox' = Append(inbox, c)
      /\ UNCHANGED <<sendCases, active, next, leaving, panicked, pc, due, ticket, turn, got, taken>>
  BY DEF LInv, ListInv, Subscribe
<1>2. /\ inbox' \in Seq(Chan) /\ Distinct(inbox)'
      /\ ToSet(inbox)' = ToSet(inbox) \cup {c}
  BY <1>1, AppendsOne
<1>3. ToSet(sendCases)' = ToSet(sendCases) /\ Distinct(sendCases)'
  BY <1>1 DEF LInv, ListInv
<1>4. ListInv'
  BY <1>1, <1>2, <1>3 DEF LInv, ListInv
<1>5. CallInv'
  BY <1>1 DEF LInv, CallInv
<1>6. LInv'
  BY <1>4, <1>5 DEF LInv
<1>7. SubOf[c] = "none"
  BY <1>1, SeenAt
<1>8. SubOf' = [SubOf EXCEPT ![c] = "inbox"]
  BY <1>1, <1>2, <1>3 DEF SubOf
<1>9. Unserved' = Unserved /\ PcOf' = PcOf
  BY <1>1 DEF Unserved, PcOf
<1> QED BY <1>1, <1>6, <1>7, <1>8, <1>9 DEF Abstract!Subscribe

\* Unsubscribe starts the removal.
LEMMA UnsubscribeImplements ==
  ASSUME LInv, NEW c \in Chan, Unsubscribe(c)
  PROVE  LInv' /\ Abstract!Unsubscribe(c)
<1>1. /\ c \in Subscribed /\ due' = [s \in Sender |-> due[s] \ {c}]
      /\ UNCHANGED <<sendCases, active, next, panicked, pc, ticket, turn, got, taken>>
  BY DEF Unsubscribe
<1>2. /\ inbox \in Seq(Chan) /\ Distinct(inbox) /\ ListInv /\ CallInv
      /\ Len(inbox) \in Nat
  BY DEF LInv, ListInv
<1>3. ToSet(sendCases)' = ToSet(sendCases) /\ Distinct(sendCases)'
  BY <1>1, <1>2 DEF ListInv
<1>4. CallInv'
  BY <1>1, <1>2 DEF CallInv
<1>5. SubOf[c] \in {"inbox", "member"}
  BY <1>1, SeenAt DEF Subscribed
<1>6. Unserved' = Unserved /\ PcOf' = PcOf
  BY <1>1 DEF Unserved, PcOf
<1>7. ListInv' /\ SubOf' = [SubOf EXCEPT ![c] = IF @ = "inbox" THEN "none" ELSE "leaving"]
  <2>1. CASE c \in ToSet(inbox)
    <3>1. Find(inbox, c) \in 1..Len(inbox) /\ inbox[Find(inbox, c)] = c
      BY <1>2, <2>1, Finds
    <3>2. Find(inbox, c) # 0
      BY <1>2, <3>1
    <3>3. inbox' = RemoveAt(inbox, Find(inbox, c)) /\ leaving' = leaving
      BY <3>2 DEF Unsubscribe
    <3>4. inbox' \in Seq(Chan) /\ Distinct(inbox') /\ ToSet(inbox') = ToSet(inbox) \ {c}
      BY <1>2, <3>1, <3>3, RemovesOne
    <3>5. ListInv'
      BY <1>1, <1>2, <1>3, <3>3, <3>4 DEF ListInv
    <3>6. SubOf[c] = "inbox" /\ c \notin ToSet(sendCases) /\ c \notin leaving
      BY <1>2, <2>1 DEF SubOf, ListInv
    <3>7. SubOf' = [SubOf EXCEPT ![c] = "none"]
      BY <1>3, <3>3, <3>4, <3>6 DEF SubOf
    <3> QED BY <3>5, <3>6, <3>7
  <2>2. CASE c \notin ToSet(inbox)
    <3>1. Find(inbox, c) = 0
      BY <1>2, <2>2, Finds
    <3>2. inbox' = inbox /\ leaving' = leaving \cup {c}
      BY <3>1 DEF Unsubscribe
    <3>3. c \in ToSet(sendCases) /\ c \notin leaving
      BY <1>1, <2>2 DEF Subscribed
    <3>4. ListInv'
      BY <1>1, <1>2, <1>3, <3>2, <3>3 DEF ListInv
    <3>5. SubOf[c] = "member"
      BY <2>2, <3>3 DEF SubOf
    <3>6. SubOf' = [SubOf EXCEPT ![c] = "leaving"]
      BY <1>3, <2>2, <3>2 DEF SubOf
    <3> QED BY <3>4, <3>5, <3>6
  <2> QED BY <2>1, <2>2
<1>8. LInv'
  BY <1>4, <1>7 DEF LInv
<1> QED BY <1>1, <1>5, <1>6, <1>7, <1>8 DEF Abstract!Unsubscribe

\* delete finds its channel, and takes it out of the audience.
LEMMA Deletes ==
  ASSUME LInv, NEW c \in leaving, Delete(c), inbox' = inbox
  PROVE  /\ ListInv' /\ panicked' = FALSE
         /\ active' \in 0..Len(sendCases') /\ active' <= active
         /\ First(sendCases, active)' = First(sendCases, active) \ {c}
         /\ c \in Chan /\ SubOf[c] = "leaving"
         /\ SubOf' = [SubOf EXCEPT ![c] = "none"]
<1> DEFINE index == Find(sendCases, c)
<1>1. /\ ListInv /\ CallInv /\ sendCases \in Seq(Chan) /\ Distinct(sendCases)
      /\ c \in ToSet(sendCases) /\ Len(sendCases) \in Nat /\ active \in 0..Len(sendCases)
  BY DEF LInv, ListInv, CallInv
<1>2. index \in 1..Len(sendCases) /\ sendCases[index] = c
  BY <1>1, Finds
<1>3. index # 0
  BY <1>1, <1>2
<1>4. /\ leaving' = leaving \ {c} /\ sendCases' = RemoveAt(sendCases, index)
      /\ active' = (IF index <= active THEN active - 1 ELSE active) /\ panicked' = panicked
  BY <1>3 DEF Delete, Shrunk
<1> HIDE DEF index
<1>5. /\ sendCases' \in Seq(Chan) /\ Len(sendCases') = Len(sendCases) - 1
      /\ Distinct(sendCases') /\ ToSet(sendCases') = ToSet(sendCases) \ {c}
      /\ First(sendCases', active') = First(sendCases, active) \ {c}
  BY <1>1, <1>2, <1>4, RemovesOne
<1>6. active' \in 0..Len(sendCases') /\ active' <= active /\ panicked' = FALSE
  BY <1>1, <1>2, <1>4, <1>5 DEF CallInv
<1>7. ListInv'
  BY <1>1, <1>4, <1>5 DEF ListInv
<1>8. c \in Chan
  BY <1>1, AllFirst
<1>9. SubOf[c] = "leaving"
  BY <1>8, SeenAt
<1>10. c \notin ToSet(inbox)
  BY <1>1 DEF ListInv
<1>11. SubOf' = [SubOf EXCEPT ![c] = "none"]
  BY <1>4, <1>5, <1>10 DEF SubOf
<1> QED BY <1>5, <1>6, <1>7, <1>8, <1>9, <1>11

\* The channel leaves the inbox, the list, or the list of the Send that is told.
LEMMA LeaveImplements ==
  ASSUME LInv, NEW c \in Chan, Leave(c)
  PROVE  LInv' /\ Abstract!Leave(c)
<1>1. ListInv /\ CallInv
  BY DEF LInv
<1>2. CASE RemoveLocked(c)
  <2>1. /\ c \in leaving /\ Unlocked /\ Delete(c)
        /\ UNCHANGED <<inbox, next, pc, due, ticket, turn, got, taken>>
    BY <1>2 DEF RemoveLocked
  <2>2. active = 0
    BY <1>1, <2>1 DEF CallInv, Unlocked
  <2>3. /\ ListInv' /\ panicked' = FALSE
        /\ active' \in 0..Len(sendCases') /\ active' <= active
        /\ First(sendCases, active)' = First(sendCases, active) \ {c}
        /\ SubOf[c] = "leaving" /\ SubOf' = [SubOf EXCEPT ![c] = "none"]
    BY <2>1, Deletes
  <2>4. active' = 0
    BY <2>2, <2>3 DEF ListInv
  <2>5. CallInv'
    <3>1. next' \in 1..(active' + 1)
      BY <1>1, <2>1, <2>2, <2>4 DEF CallInv
    <3> QED BY <1>1, <2>1, <2>3, <2>4, <3>1 DEF CallInv
  <2>6. LInv'
    BY <2>3, <2>5 DEF LInv
  <2>7. Unserved' = Unserved \ {c} /\ PcOf' = PcOf
    BY <2>1, <2>3, <2>6, Audience, AudienceAfter DEF PcOf
  <2>8. \A s \in Sender : PcOf[s] # "locked"
    BY <2>1 DEF PcOf, Unlocked
  <2> QED BY <2>1, <2>3, <2>6, <2>7, <2>8 DEF Abstract!Leave
<1>3. ASSUME NEW s \in Sender, SelectRemove(s, c) PROVE LInv' /\ Abstract!Leave(c)
  <2>1. /\ c \in leaving /\ pc[s] = "select" /\ Delete(c)
        /\ pc' = [pc EXCEPT ![s] = "try"] /\ next' = 1
        /\ UNCHANGED <<inbox, due, ticket, turn, got, taken>>
    BY <1>3 DEF SelectRemove
  <2>2. /\ ListInv' /\ panicked' = FALSE
        /\ active' \in 0..Len(sendCases') /\ active' <= active
        /\ First(sendCases, active)' = First(sendCases, active) \ {c}
        /\ SubOf[c] = "leaving" /\ SubOf' = [SubOf EXCEPT ![c] = "none"]
    BY <2>1, Deletes
  <2>3. CallInv'
    <3>1. next' \in 1..(active' + 1)
      <4>1. \A n \in Nat : 1 \in 1..(n + 1)
        OBVIOUS
      <4>2. active' \in Nat
        BY <2>2
      <4> QED BY <2>1, <4>1, <4>2, Zenon
    <3>2. pc'[s] = "try" /\ \A t \in Sender : t # s => pc'[t] = pc[t]
      BY <1>1, <2>1 DEF CallInv
    <3>3. \A t, u \in Sender : pc'[t] \in {"locked", "try", "select"}
                               /\ pc'[u] \in {"locked", "try", "select"} => t = u
      BY <1>1, <2>1, <3>2 DEF CallInv
    <3>4. pc' \in [Sender -> {"idle", "called", "locked", "try", "select", "done"}]
      BY <1>1, <2>1 DEF CallInv
    <3> QED BY <2>2, <3>1, <3>2, <3>3, <3>4 DEF CallInv
  <2>4. LInv'
    BY <2>2, <2>3 DEF LInv
  <2>5. Unserved' = Unserved \ {c}
    BY <2>2, <2>4, Audience, AudienceAfter
  <2>6. PcOf' = PcOf
    BY <1>1, <2>1 DEF PcOf, CallInv
  <2>7. \A t \in Sender : PcOf[t] # "locked"
    BY <1>1, <2>1 DEF PcOf, CallInv
  <2> QED BY <2>1, <2>2, <2>4, <2>5, <2>6, <2>7 DEF Abstract!Leave
<1> QED BY <1>2, <1>3 DEF Leave

\* A subscriber takes a value from its buffer.
LEMMA ReceiveImplements ==
  ASSUME LInv, NEW c \in Chan, Receive(c)
  PROVE  LInv' /\ Abstract!Receive(c)
<1>1. /\ UNCHANGED <<inbox, sendCases, active, next, leaving, panicked, pc, due, ticket, turn, got>>
      /\ taken[c] < Len(got[c]) /\ taken' = [taken EXCEPT ![c] = @ + 1]
  BY DEF Receive, feedVars
<1>2. LInv'
  BY <1>1 DEF LInv, ListInv, CallInv
<1>3. SubOf' = SubOf /\ Unserved' = Unserved /\ PcOf' = PcOf
  BY <1>1 DEF SubOf, Unserved, PcOf
<1> QED BY <1>1, <1>2, <1>3 DEF Abstract!Receive

-----------------------------------------------------------------------------
(* Steps of Send                                                           *)

\* Send is called.
LEMMA CallImplements ==
  ASSUME LInv, NEW s \in Sender, Call(s)
  PROVE  LInv' /\ Abstract!Call(s)
<1>1. /\ UNCHANGED <<inbox, sendCases, active, next, leaving, panicked, ticket, turn, got, taken>>
      /\ pc[s] = "idle" /\ pc' = [pc EXCEPT ![s] = "called"]
      /\ due' = [due EXCEPT ![s] = Subscribed]
  BY DEF Call, feedVars
<1>2. ListInv' /\ CallInv /\ ListInv
  BY <1>1 DEF LInv, ListInv
<1>3. CallInv'
  BY <1>1, <1>2 DEF CallInv
<1>4. LInv'
  BY <1>2, <1>3 DEF LInv
<1>5. SubOf' = SubOf /\ Unserved' = Unserved
  <2>1. First(sendCases, active)' = First(sendCases, active)
    BY <1>1
  <2> QED BY <1>1, <1>4, <2>1, Audience, AudienceAfter DEF SubOf
<1>6. PcOf[s] = "idle" /\ PcOf' = [PcOf EXCEPT ![s] = "called"]
  BY <1>1, <1>2 DEF PcOf, CallInv
<1>7. Subscribed = {c \in Chan : SubOf[c] \in {"inbox", "member"}}
  <2>1. Subscribed \subseteq Chan
    BY <1>2, AllFirst DEF ListInv, Subscribed
  <2>2. \A c \in Chan : c \in Subscribed <=> SubOf[c] \in {"inbox", "member"}
    BY SeenAt DEF Subscribed
  <2> QED BY <2>1, <2>2
<1> QED BY <1>1, <1>4, <1>5, <1>6, <1>7 DEF Abstract!Call

\* Send takes the lock.
LEMMA LockImplements ==
  ASSUME LInv, NEW s \in Sender, Lock(s)
  PROVE  LInv' /\ Abstract!Lock(s)
<1>1. /\ UNCHANGED <<inbox, sendCases, active, next, leaving, panicked, due, got, taken>>
      /\ pc[s] = "called" /\ pc' = [pc EXCEPT ![s] = "locked"] /\ Unlocked
      /\ turn' = turn + 1 /\ ticket' = [ticket EXCEPT ![s] = turn + 1]
  BY DEF Lock, feedVars
<1>2. ListInv' /\ CallInv /\ ListInv
  BY <1>1 DEF LInv, ListInv
<1>3. CallInv'
  BY <1>1, <1>2 DEF CallInv, Unlocked
<1>4. LInv'
  BY <1>2, <1>3 DEF LInv
<1>5. SubOf' = SubOf /\ Unserved' = Unserved
  <2>1. First(sendCases, active)' = First(sendCases, active)
    BY <1>1
  <2> QED BY <1>1, <1>4, <2>1, Audience, AudienceAfter DEF SubOf
<1>6. PcOf[s] = "called" /\ PcOf' = [PcOf EXCEPT ![s] = "locked"]
  BY <1>1, <1>2 DEF PcOf, CallInv
<1>7. Abstract!Unlocked
  BY <1>1, <1>2 DEF Abstract!Unlocked, Unlocked, PcOf, CallInv
<1> QED BY <1>1, <1>4, <1>5, <1>6, <1>7 DEF Abstract!Lock

\* The inbox is appended to the list.
LEMMA GatherImplements ==
  ASSUME LInv, NEW s \in Sender, Gather(s)
  PROVE  LInv' /\ Abstract!Gather(s)
<1>1. /\ UNCHANGED <<leaving, panicked, due, ticket, turn, got, taken>>
      /\ pc[s] = "locked" /\ pc' = [pc EXCEPT ![s] = "try"]
      /\ sendCases' = sendCases \o inbox /\ inbox' = <<>>
      /\ active' = Len(sendCases) + Len(inbox) /\ next' = 1
  BY DEF Gather
<1>2. /\ CallInv /\ ListInv /\ sendCases \in Seq(Chan) /\ inbox \in Seq(Chan)
      /\ Distinct(sendCases) /\ Distinct(inbox) /\ ToSet(sendCases) \cap ToSet(inbox) = {}
  BY DEF LInv, ListInv
<1>3. /\ sendCases' \in Seq(Chan) /\ Len(sendCases') = Len(sendCases) + Len(inbox)
      /\ Distinct(sendCases') /\ ToSet(sendCases') = ToSet(sendCases) \cup ToSet(inbox)
  BY <1>1, <1>2, Joins
<1>4. inbox' \in Seq(Chan) /\ ToSet(inbox') = {} /\ Distinct(inbox')
  BY <1>1 DEF ToSet, Distinct
<1>5. ListInv'
  BY <1>1, <1>2, <1>3, <1>4 DEF ListInv
<1>6. active' = Len(sendCases') /\ active' \in 0..Len(sendCases')
  BY <1>1, <1>3
<1>7. CallInv'
  BY <1>1, <1>2, <1>6 DEF CallInv
<1>8. LInv'
  BY <1>5, <1>7 DEF LInv
<1>9. PcOf[s] = "locked" /\ PcOf' = [PcOf EXCEPT ![s] = "sending"]
  BY <1>1, <1>2 DEF PcOf, CallInv
<1>10. SubOf' = [c \in Chan |-> IF SubOf[c] = "inbox" THEN "member" ELSE SubOf[c]]
  BY <1>1, <1>2, <1>3, <1>4 DEF SubOf, ListInv
<1>11. Unserved' = {c \in Chan : SubOf[c] # "none"}
  <2>1. Unserved' = ToSet(sendCases) \cup ToSet(inbox)
    BY <1>3, <1>6, <1>8, AudienceAfter, AllFirst
  <2>2. ToSet(sendCases) \cup ToSet(inbox) \subseteq Chan
    BY <1>2, AllFirst
  <2>3. \A c \in Chan : SubOf[c] # "none" <=> c \in ToSet(sendCases) \cup ToSet(inbox)
    BY SeenAt
  <2> QED BY <2>1, <2>2, <2>3
<1> QED BY <1>1, <1>8, <1>9, <1>10, <1>11 DEF Abstract!Gather

\* A case is served on the fast path or in the select.
LEMMA ServeImplements ==
  ASSUME LInv, NEW s \in Sender, NEW i \in 1..active, Serve(s, i),
         pc[s] \in {"try", "select"}, pc' = [pc EXCEPT ![s] = "try"],
         next' \in 1..active,
         UNCHANGED <<inbox, leaving, panicked, due, ticket, turn, taken>>
  PROVE  LInv' /\ \E c \in Chan : Abstract!Deliver(s, c)
<1> DEFINE c == sendCases[i]
<1>1. /\ CallInv /\ ListInv /\ sendCases \in Seq(Chan) /\ Distinct(sendCases)
      /\ Len(sendCases) \in Nat /\ active \in 1..Len(sendCases) /\ i \in 1..Len(sendCases)
  BY DEF LInv, ListInv, CallInv
<1>2. /\ Room(c) /\ got' = [got EXCEPT ![c] = Append(@, s)]
      /\ sendCases' = Swap(sendCases, i, active) /\ active' = active - 1
  BY DEF Serve
<1>3. /\ sendCases' \in Seq(Chan) /\ Len(sendCases') = Len(sendCases)
      /\ Distinct(sendCases') /\ ToSet(sendCases') = ToSet(sendCases)
      /\ First(sendCases', active') = First(sendCases, active) \ {c}
  BY <1>1, <1>2, Swaps
<1>4. ListInv'
  BY <1>1, <1>3 DEF ListInv
<1>5. active' \in 0..Len(sendCases') /\ next' \in 1..(active' + 1)
  BY <1>1, <1>2, <1>3
<1>6. CallInv'
  BY <1>1, <1>5 DEF CallInv
<1>7. LInv'
  BY <1>4, <1>6 DEF LInv
<1>8. SubOf' = SubOf
  BY <1>3 DEF SubOf
<1>9. PcOf[s] = "sending" /\ PcOf' = PcOf
  BY <1>1 DEF PcOf, CallInv
<1>10. c \in Chan /\ c \in First(sendCases, active)
  BY <1>1 DEF First
<1>11. c \in Unserved /\ Unserved' = Unserved \ {c}
  BY <1>3, <1>7, <1>10, Audience, AudienceAfter
<1>12. Abstract!Room(c)
  BY <1>2 DEF Room, Abstract!Room
<1> HIDE DEF c
<1>13. Abstract!Deliver(s, c)
  BY <1>2, <1>8, <1>9, <1>11, <1>12 DEF Abstract!Deliver
<1> QED BY <1>7, <1>10, <1>13

\* TrySend, and the send cases of the select.
LEMMA SendImplements ==
  ASSUME LInv, NEW s \in Sender, TrySend(s) \/ SelectSend(s)
  PROVE  /\ LInv'
         /\ (\E c \in Chan : Abstract!Deliver(s, c)) \/ UNCHANGED Abstract!vars
<1>1. CallInv /\ ListInv /\ active \in Nat /\ next \in Nat \ {0}
  BY DEF LInv, CallInv, ListInv
<1>2. CASE TrySend(s) /\ Serve(s, next) /\ UNCHANGED next
  <2>1. /\ pc[s] = "try" /\ next \in 1..active
        /\ UNCHANGED <<inbox, leaving, panicked, pc, due, ticket, turn, taken>>
    BY <1>1, <1>2 DEF TrySend
  <2>2. pc' = [pc EXCEPT ![s] = "try"] /\ next' \in 1..active
    BY <1>1, <1>2, <2>1 DEF CallInv
  <2> QED BY <1>2, <2>1, <2>2, ServeImplements
<1>3. CASE TrySend(s) /\ ~(Serve(s, next) /\ UNCHANGED next)
  <2>1. /\ next <= active /\ next' = next + 1 /\ UNCHANGED <<got, sendCases, active>>
        /\ UNCHANGED <<inbox, leaving, panicked, pc, due, ticket, turn, taken>>
    BY <1>3 DEF TrySend
  <2>2. LInv'
    BY <1>1, <2>1 DEF LInv, ListInv, CallInv
  <2>3. SubOf' = SubOf /\ Unserved' = Unserved /\ PcOf' = PcOf
    BY <2>1 DEF SubOf, Unserved, PcOf
  <2> QED BY <2>1, <2>2, <2>3 DEF Abstract!vars
<1>4. CASE SelectSend(s)
  <2>1. PICK i \in 1..active : Serve(s, i)
    BY <1>4 DEF SelectSend
  <2>2. /\ pc[s] = "select" /\ pc' = [pc EXCEPT ![s] = "try"] /\ next' = 1
        /\ UNCHANGED <<inbox, leaving, panicked, due, ticket, turn, taken>>
    BY <1>4 DEF SelectSend
  <2>3. next' \in 1..active /\ pc[s] \in {"try", "select"}
    BY <1>1, <2>1, <2>2
  <2> QED BY <2>1, <2>2, <2>3, ServeImplements
<1> QED BY <1>2, <1>3, <1>4

\* Block only moves the call inside "sending".
LEMMA BlockImplements ==
  ASSUME LInv, NEW s \in Sender, Block(s)
  PROVE  LInv' /\ UNCHANGED Abstract!vars
<1>1. /\ UNCHANGED <<inbox, sendCases, active, next, leaving, panicked>>
      /\ UNCHANGED <<due, ticket, turn, got, taken>>
      /\ pc[s] = "try" /\ pc' = [pc EXCEPT ![s] = "select"]
  BY DEF Block, feedVars
<1>2. ListInv' /\ CallInv
  BY <1>1 DEF LInv, ListInv
<1>3. CallInv'
  BY <1>1, <1>2 DEF CallInv
<1>4. LInv'
  BY <1>2, <1>3 DEF LInv
<1>5. SubOf' = SubOf /\ Unserved' = Unserved
  <2>1. First(sendCases, active)' = First(sendCases, active)
    BY <1>1
  <2> QED BY <1>1, <1>4, <2>1, Audience, AudienceAfter DEF SubOf
<1>6. PcOf' = PcOf
  BY <1>1, <1>2 DEF PcOf, CallInv
<1> QED BY <1>1, <1>4, <1>5, <1>6 DEF Abstract!vars

\* Send returns when no case is left.
LEMMA ReturnImplements ==
  ASSUME LInv, NEW s \in Sender, Return(s)
  PROVE  LInv' /\ Abstract!Return(s)
<1>1. /\ UNCHANGED <<inbox, sendCases, active, next, leaving, panicked>>
      /\ UNCHANGED <<due, ticket, turn, got, taken>>
      /\ pc[s] = "try" /\ pc' = [pc EXCEPT ![s] = "done"] /\ active = 0
  BY DEF Return, feedVars
<1>2. ListInv' /\ CallInv
  BY <1>1 DEF LInv, ListInv
<1>3. CallInv'
  <2>1. ~(active' > 0)
    BY <1>1
  <2> QED BY <1>1, <1>2, <2>1 DEF CallInv
<1>4. LInv'
  BY <1>2, <1>3 DEF LInv
<1>5. SubOf' = SubOf /\ Unserved' = Unserved /\ Unserved = {}
  <2>1. First(sendCases, active)' = First(sendCases, active) /\ First(sendCases, active) = {}
    BY <1>1 DEF First
  <2> QED BY <1>1, <1>4, <2>1, Audience, AudienceAfter DEF SubOf
<1>6. PcOf[s] = "sending" /\ PcOf' = [PcOf EXCEPT ![s] = "done"]
  BY <1>1, <1>2 DEF PcOf, CallInv
<1> QED BY <1>1, <1>4, <1>5, <1>6 DEF Abstract!Return

-----------------------------------------------------------------------------
(* The refinement                                                          *)

\* Both start without subscriptions.
LEMMA InitImplements == Init => LInv /\ Abstract!Init
<1> SUFFICES ASSUME Init PROVE LInv /\ Abstract!Init
  OBVIOUS
<1>1. inbox = <<>> /\ sendCases = <<>> /\ ToSet(<<>>) = {} /\ Len(sendCases) = 0
  BY DEF Init, ToSet
<1>2. ListInv
  BY <1>1 DEF Init, ListInv, Distinct
<1>3. CallInv
  <2>1. active \in 0..Len(sendCases) /\ ~(active > 0) /\ next \in 1..(active + 1)
    BY <1>1 DEF Init
  <2>2. /\ pc \in [Sender -> {"idle", "called", "locked", "try", "select", "done"}]
        /\ \A s \in Sender : pc[s] = "idle"
    BY DEF Init
  <2> QED BY <2>1, <2>2 DEF Init, CallInv
<1>4. SubOf = [c \in Chan |-> "none"] /\ Unserved = {} /\ PcOf = [s \in Sender |-> "idle"]
  BY <1>1 DEF Init, SubOf, Unserved, PcOf
<1> QED BY <1>2, <1>3, <1>4 DEF Init, LInv, Abstract!Init

\* Every step keeps the invariant and is a step of FeedSpec or none.
LEMMA StepImplements == LInv /\ [Next]_vars => LInv' /\ [Abstract!Next]_(Abstract!vars)
<1> SUFFICES ASSUME LInv, [Next]_vars PROVE LInv' /\ [Abstract!Next]_(Abstract!vars)
  OBVIOUS
<1>1. ASSUME NEW c \in Chan, Subscribe(c) \/ Unsubscribe(c) \/ Leave(c) \/ Receive(c)
      PROVE  LInv' /\ Abstract!Next
  BY <1>1, SubscribeImplements, UnsubscribeImplements, LeaveImplements, ReceiveImplements
     DEF Abstract!Next
<1>2. ASSUME NEW s \in Sender, Call(s) \/ Lock(s) \/ Gather(s) \/ Return(s)
      PROVE  LInv' /\ Abstract!Next
  BY <1>2, CallImplements, LockImplements, GatherImplements, ReturnImplements DEF Abstract!Next
<1>3. ASSUME NEW s \in Sender, TrySend(s) \/ SelectSend(s)
      PROVE  LInv' /\ [Abstract!Next]_(Abstract!vars)
  BY <1>3, SendImplements DEF Abstract!Next
<1>4. ASSUME NEW s \in Sender, Block(s)
      PROVE  LInv' /\ [Abstract!Next]_(Abstract!vars)
  BY <1>4, BlockImplements
<1>5. CASE UNCHANGED vars
  <2>1. UNCHANGED <<inbox, sendCases, active, next, leaving, panicked, pc, due, ticket, turn,
                    got, taken>>
    BY <1>5 DEF vars, feedVars
  <2>2. LInv'
    BY <2>1 DEF LInv, ListInv, CallInv
  <2>3. UNCHANGED Abstract!vars
    BY <2>1 DEF Abstract!vars, SubOf, Unserved, PcOf
  <2> QED BY <2>2, <2>3
<1> QED BY <1>1, <1>2, <1>3, <1>4, <1>5 DEF Next, SenderNext

\* Swapping, shrinking and deleting in the list of select cases implements
\* delivery to a set of channels, for any channels, Sends and capacity.
THEOREM ListsImplementFeed == Spec => FeedImplements
<1>1. Init => LInv /\ Abstract!Init
  BY InitImplements
<1>2. LInv /\ [Next]_vars => LInv' /\ [Abstract!Next]_(Abstract!vars)
  BY StepImplements
<1> QED BY <1>1, <1>2, PTL DEF Spec, FeedImplements, Abstract!Spec

\* Indexes stay inside the list of cases: nothing in Send or remove panics.
THEOREM ListsTypeCorrect == Spec => []FeedTypeOK
<1>1. LInv => FeedTypeOK
  BY DEF LInv, ListInv, CallInv, FeedTypeOK
<1>2. Init => LInv
  BY InitImplements
<1>3. LInv /\ [Next]_vars => LInv'
  BY StepImplements
<1> QED BY <1>1, <1>2, <1>3, PTL DEF Spec

-----------------------------------------------------------------------------
(* What FeedProofs shows, for the lists                                    *)

Proved == INSTANCE FeedProofs WITH sub <- SubOf, audience <- Unserved, pc <- PcOf

\* The theorems of FeedProofs are about the specification that is implemented.
LEMMA SameSpec == FeedImplements => Proved!Spec
<1>1. Abstract!Init => Proved!Init
  BY DEF Abstract!Init, Proved!Init
<1>2. ASSUME Abstract!Next PROVE Proved!Next
  <2>1. ASSUME NEW c \in Chan,
               \/ Abstract!Subscribe(c) \/ Abstract!Unsubscribe(c)
               \/ Abstract!Leave(c) \/ Abstract!Receive(c)
        PROVE  Proved!Next
    <3>1. \/ Proved!Subscribe(c) \/ Proved!Unsubscribe(c) \/ Proved!Leave(c) \/ Proved!Receive(c)
      BY <2>1 DEF Abstract!Subscribe, Proved!Subscribe, Abstract!Unsubscribe, Proved!Unsubscribe,
                  Abstract!Leave, Proved!Leave, Abstract!Receive, Proved!Receive
    <3> QED BY <3>1 DEF Proved!Next
  <2>2. ASSUME NEW s \in Sender,
               \/ Abstract!Call(s) \/ Abstract!Lock(s) \/ Abstract!Gather(s) \/ Abstract!Return(s)
        PROVE  Proved!Next
    <3>1. Proved!Call(s) \/ Proved!Lock(s) \/ Proved!Gather(s) \/ Proved!Return(s)
      BY <2>2 DEF Abstract!Call, Proved!Call, Abstract!Lock, Proved!Lock, Abstract!Unlocked,
                  Proved!Unlocked, Abstract!Gather, Proved!Gather, Abstract!Return, Proved!Return
    <3> QED BY <3>1 DEF Proved!Next
  <2>3. ASSUME NEW s \in Sender, NEW c \in Chan, Abstract!Deliver(s, c) PROVE Proved!Next
    <3>1. Proved!Deliver(s, c)
      BY <2>3 DEF Abstract!Deliver, Proved!Deliver, Abstract!Room, Proved!Room
    <3> QED BY <3>1 DEF Proved!Next
  <2> QED BY <1>2, <2>1, <2>2, <2>3 DEF Abstract!Next
<1>3. [Abstract!Next]_(Abstract!vars) => [Proved!Next]_(Proved!vars)
  BY <1>2 DEF Abstract!vars, Proved!vars
<1> QED BY <1>1, <1>3, PTL DEF FeedImplements, Abstract!Spec, Proved!Spec

\* All subscribers of event.Feed see values in one order and none twice.
THEOREM FeedOrderAgreed == Spec => []OneOrder
<1>1. Proved!OneOrder => OneOrder
  BY DEF Proved!OneOrder, OneOrder, Abstract!OneOrder
<1> QED BY <1>1, ListsImplementFeed, SameSpec, Proved!OrderAgreed, PTL

\* A Send of event.Feed that returned reached every channel it owed its value.
THEOREM FeedAllReached == Spec => []ReachesAll
<1>1. Proved!ReachesAll => ReachesAll
  BY DEF Proved!ReachesAll, ReachesAll, Abstract!ReachesAll, Proved!Delivered, Abstract!Delivered
<1> QED BY <1>1, ListsImplementFeed, SameSpec, Proved!AllReached, PTL

=============================================================================
