---------------------------- MODULE CliqueProofs ----------------------------
(***************************************************************************)
(* Proofs about CliqueChain and Clique, for any accounts, epoch, intervals *)
(* and thresholds, and blocks of any number and length.                    *)
(*                                                                         *)
(* The chain: the votes of a snapshot have their tally, one signer has one *)
(* vote per account and one place in the window of recent signers, and     *)
(* apply keeps all that.                                                   *)
(*                                                                         *)
(* The engine: what ApplyAll computes is shown by taking the least number  *)
(* of headers for which a statement fails.  A replay can be interrupted at *)
(* any ancestor, which is why a snapshot found there can be built upon;    *)
(* and a replay from a checkpoint differs from one from genesis in the     *)
(* recent signers only, because a checkpoint carries no vote and lists the *)
(* signers.  That it does is part of the invariant, for all blocks the     *)
(* node knows.                                                             *)
(***************************************************************************)
EXTENDS CliqueChain, Clique, SequenceTheorems, FiniteSetTheorems, WellFoundedInduction, TLAPS

-----------------------------------------------------------------------------
(* The chain                                                               *)

\* The tally counts the votes, for one list of votes, tally and signer set.
Counts(votes, tally, signers) ==
  \A a \in Address :
    /\ tally[a].votes = Cardinality(About(votes, a))
    /\ \A v \in About(votes, a) :
         v.authorize = tally[a].authorize /\ ValidVote(signers, a, v.authorize)

\* A signer has one vote per account.
Unique(votes) ==
  \A v, w \in votes : v.signer = w.signer /\ v.address = w.address => v = w

\* A finite set of votes with its tally.
VotesOK(votes, tally, signers) ==
  /\ IsFiniteSet(votes) /\ votes \subseteq Vote
  /\ tally \in [Address -> Tally]
  /\ Counts(votes, tally, signers)
  /\ Unique(votes)
  /\ \A v \in votes : v.signer \in signers

\* Entries of the window that ends with block number: one per block, one per signer.
RecentsOK(rs, number, limit) ==
  /\ rs \subseteq Recent
  /\ \A r \in rs : number - limit < r.block /\ r.block <= number
  /\ \A r, q \in rs : r.signer = q.signer \/ r.block = q.block => r = q

\* The inductive invariant of the chain.
ChainInv ==
  /\ ChainTypeOK
  /\ VotesOK(snap.votes, snap.tally, snap.signers)
  /\ RecentsOK(snap.recents, snap.number, Limit(snap.signers))

-----------------------------------------------------------------------------
\* Sets of accounts are finite, and a signer list has a positive window.
LEMMA LimitFacts ==
  ASSUME NEW S \in SUBSET Address
  PROVE  /\ IsFiniteSet(S) /\ Cardinality(S) \in Nat
         /\ Limit(S) \in Nat /\ Limit(S) = Cardinality(S) \div 2 + 1 /\ Limit(S) >= 1
<1>1. IsFiniteSet(S) /\ Cardinality(S) \in Nat
  BY AddressAssumption, FS_Subset, FS_CardinalityType
<1> QED BY <1>1 DEF Limit

\* uncast keeps the tally in step with the list the votes are removed from.
LEMMA UncastCounts ==
  ASSUME NEW votes, NEW tally, NEW signers, VotesOK(votes, tally, signers),
         NEW gone \in SUBSET votes
  PROVE  VotesOK(votes \ gone, Uncast(tally, gone), signers)
<1>1. ASSUME NEW a \in Address
      PROVE  /\ Uncast(tally, gone)[a] \in Tally
             /\ Uncast(tally, gone)[a].votes = Cardinality(About(votes \ gone, a))
             /\ \A v \in About(votes \ gone, a) : v.authorize = Uncast(tally, gone)[a].authorize
  <2> DEFINE A == About(votes, a)
             B == About(gone, a)
             n == Cardinality(B)
             t == tally[a]
             U == Uncast(tally, gone)[a]
             W == About(votes \ gone, a)
  <2>1. {v \in gone : v.address = a /\ v.authorize = t.authorize} = B
    BY DEF About, VotesOK, Counts
  <2>2. U =
          IF n = 0 THEN t
          ELSE IF t.votes > n THEN [authorize |-> t.authorize, votes |-> t.votes - n]
          ELSE NoTally
    BY <2>1 DEF Uncast
  <2>3. IsFiniteSet(A) /\ Cardinality(A) \in Nat /\ t.votes = Cardinality(A)
    BY FS_Subset, FS_CardinalityType DEF About, VotesOK, Counts
  <2>4. B \subseteq A /\ A \cap B = B
    BY DEF About
  <2>5. IsFiniteSet(B) /\ n \in Nat /\ n <= Cardinality(A)
    BY <2>3, <2>4, FS_Subset, FS_CardinalityType
  <2>6. W = A \ B
    BY DEF About
  <2>7. Cardinality(A \ B) = Cardinality(A) - n
    <3> HIDE DEF A, B
    <3>1. Cardinality(A \ B) = Cardinality(A) - Cardinality(A \cap B)
      BY <2>3, FS_Difference
    <3> QED BY <2>4, <3>1
  <2>8. t \in Tally /\ \A v \in A : v.authorize = t.authorize
    BY DEF VotesOK, Counts
  <2> HIDE DEF A, B, n, t, U, W
  <2> SUFFICES U \in Tally /\ U.votes = Cardinality(W) /\ \A v \in W : v.authorize = U.authorize
    BY DEF U, W
  <2>9. CASE n = 0
    BY <2>2, <2>3, <2>6, <2>7, <2>8, <2>9
  <2>10. CASE n # 0 /\ t.votes > n
    <3>1. t # NoTally
      BY <2>5, <2>10 DEF NoTally
    <3>2. t.authorize \in Nonce
      BY <2>8, <3>1 DEF Tally
    <3>3. t.votes - n \in Nat \ {0} /\ t.votes - n = Cardinality(A \ B)
      BY <2>3, <2>5, <2>7, <2>10
    <3>4. U = [authorize |-> t.authorize, votes |-> t.votes - n]
      BY <2>2, <2>10
    <3> QED BY <2>6, <2>8, <3>2, <3>3, <3>4 DEF Tally
  <2>11. CASE n # 0 /\ ~(t.votes > n)
    <3>1. U = NoTally
      BY <2>2, <2>11
    <3>2. Cardinality(A \ B) = 0
      BY <2>3, <2>5, <2>7, <2>11
    <3>3. A \ B = {}
      BY <2>3, <3>2, FS_EmptySet, FS_Difference
    <3> QED BY <2>6, <3>1, <3>2, <3>3 DEF NoTally, Tally
  <2> QED BY <2>9, <2>10, <2>11
<1>2. IsFiniteSet(votes \ gone)
  BY FS_Difference DEF VotesOK
<1>3. Uncast(tally, gone) \in [Address -> Tally]
  BY <1>1 DEF Uncast
<1>4. \A a \in Address : \A v \in About(votes \ gone, a) : ValidVote(signers, a, v.authorize)
  BY DEF VotesOK, Counts, About
<1>5. Counts(votes \ gone, Uncast(tally, gone), signers)
  BY <1>1, <1>4 DEF Counts
<1> QED BY <1>2, <1>3, <1>5 DEF VotesOK, Unique

\* cast keeps it in step with the list a valid vote is added to.
LEMMA CastCounts ==
  ASSUME NEW votes, NEW tally, NEW signers, VotesOK(votes, tally, signers),
         NEW v \in Vote, v \notin votes, v.signer \in signers,
         ValidVote(signers, v.address, v.authorize),
         \A w \in votes : ~(w.signer = v.signer /\ w.address = v.address)
  PROVE  VotesOK(votes \cup {v}, Cast(tally, v.address, v.authorize), signers)
<1> DEFINE c == v.address
           t == tally[c]
           new == Cast(tally, c, v.authorize)
           A == About(votes, c)
<1>1. c \in Address /\ v.authorize \in Nonce
  BY DEF Vote
<1>2. t \in Tally /\ t.votes = Cardinality(A) /\ \A w \in A : w.authorize = t.authorize
  BY <1>1 DEF VotesOK, Counts
<1>3. IsFiniteSet(A) /\ Cardinality(A) \in Nat
  BY FS_Subset, FS_CardinalityType DEF About, VotesOK
<1>4. About(votes \cup {v}, c) = A \cup {v}
  BY DEF About
<1>5. Cardinality(A \cup {v}) = Cardinality(A) + 1
  BY <1>3, FS_AddElement DEF About
<1>6. \A w \in A : w.authorize = v.authorize
  <2>1. \A w \in A : w.authorize \in Nonce /\ ValidVote(signers, c, w.authorize)
    BY <1>1 DEF VotesOK, Counts, About, Vote
  <2> QED BY <1>1, <2>1 DEF ValidVote, Nonce
<1>7. new = [tally EXCEPT ![c] = [authorize |-> v.authorize, votes |-> t.votes + 1]]
  <2>1. CASE t.votes > 0
    <3>1. \E w : w \in A
      BY <1>2, <1>3, <2>1, FS_EmptySet
    <3>2. t.authorize = v.authorize
      BY <1>2, <1>6, <3>1
    <3> QED BY <1>1, <2>1, <3>2 DEF Cast
  <2>2. CASE ~(t.votes > 0)
    <3>1. t.votes = 0
      BY <1>2, <1>3, <2>2
    <3>2. new = [tally EXCEPT ![c] = [authorize |-> v.authorize, votes |-> 1]]
      BY <1>1, <3>1 DEF Cast
    <3> QED BY <3>1, <3>2
  <2> QED BY <2>1, <2>2
<1>8. new \in [Address -> Tally]
  <2>1. [authorize |-> v.authorize, votes |-> t.votes + 1] \in Tally
    BY <1>1, <1>2, <1>3 DEF Tally
  <2> QED BY <1>1, <1>7, <2>1 DEF VotesOK
<1>9. ASSUME NEW a \in Address
      PROVE  /\ new[a].votes = Cardinality(About(votes \cup {v}, a))
             /\ \A w \in About(votes \cup {v}, a) :
                  w.authorize = new[a].authorize /\ ValidVote(signers, a, w.authorize)
  <2>1. CASE a = c
    <3>1. new[a] = [authorize |-> v.authorize, votes |-> t.votes + 1]
      BY <1>1, <1>7, <2>1 DEF VotesOK
    <3>2. \A w \in A \cup {v} : w.authorize = v.authorize /\ ValidVote(signers, c, w.authorize)
      BY <1>6
    <3> HIDE DEF new, A, c, t
    <3>3. new[a].votes = Cardinality(A \cup {v}) /\ new[a].authorize = v.authorize
      BY <1>2, <1>5, <3>1
    <3> QED BY <1>4, <2>1, <3>2, <3>3
  <2>2. CASE a # c
    <3>1. new[a] = tally[a]
      BY <1>7, <2>2 DEF VotesOK
    <3>2. About(votes \cup {v}, a) = About(votes, a)
      BY <2>2 DEF About
    <3> QED BY <3>1, <3>2 DEF VotesOK, Counts
  <2> QED BY <2>1, <2>2
<1>10. IsFiniteSet(votes \cup {v})
  BY FS_AddElement DEF VotesOK
<1> HIDE DEF new
<1>11. Unique(votes \cup {v})
  <2>1. Unique(votes)
    BY DEF VotesOK
  <2> QED BY <2>1 DEF Unique
<1>12. Counts(votes \cup {v}, new, signers)
  BY <1>9 DEF Counts
<1>13. VotesOK(votes \cup {v}, new, signers)
  BY <1>8, <1>10, <1>11, <1>12 DEF VotesOK
<1> QED BY <1>13 DEF new

-----------------------------------------------------------------------------
(* One header h on top of a consistent snapshot s. *)

\* What is pending before the header votes.
LEMMA PendingOK ==
  ASSUME NEW s \in Snapshot, VotesOK(s.votes, s.tally, s.signers)
  PROVE  VotesOK(Pending(s), PendingTally(s), s.signers) /\ Pending(s) \subseteq s.votes
<1>1. CASE Checkpoint(Number(s))
  <2>1. Pending(s) = {} /\ PendingTally(s) = [a \in Address |-> NoTally]
    BY <1>1 DEF Pending, PendingTally
  <2>2. \A a \in Address : About({}, a) = {} /\ PendingTally(s)[a] = NoTally
    BY <2>1 DEF About
  <2>3. Counts({}, PendingTally(s), s.signers)
    BY <2>2, FS_EmptySet DEF Counts, NoTally
  <2> QED BY <2>1, <2>3, FS_EmptySet DEF VotesOK, Unique, Tally
<1>2. CASE ~Checkpoint(Number(s))
  BY <1>2 DEF Pending, PendingTally
<1> QED BY <1>1, <1>2

\* The header's vote replaces the one its signer had on the account.
LEMMA BallotOK ==
  ASSUME NEW s \in Snapshot, VotesOK(s.votes, s.tally, s.signers),
         NEW h \in Header, h.signer \in s.signers
  PROVE  VotesOK(Votes(s, h), TallyOf(s, h), s.signers)
<1> DEFINE old  == {v \in Pending(s) : v.signer = h.signer /\ v.address = h.coinbase}
           kept == Pending(s) \ Superseded(s, h)
           left == Uncast(PendingTally(s), Superseded(s, h))
           v    == [signer |-> h.signer, block |-> Number(s), address |-> h.coinbase, authorize |-> h.nonce]
<1>1. VotesOK(Pending(s), PendingTally(s), s.signers)
  BY PendingOK
<1>2. Superseded(s, h) = old
  <2>1. \A x, y \in old : x = y
    BY <1>1 DEF VotesOK, Unique
  <2>2. \A x \in old : x.block \in Nat
    BY <1>1 DEF VotesOK, Vote
  <2> QED BY <2>1, <2>2 DEF Superseded
<1>3. VotesOK(kept, left, s.signers)
  BY <1>1, <1>2, UncastCounts
<1>4. CASE ValidVote(s.signers, h.coinbase, h.nonce)
  <2>1. Ballot(s, h) = {v} /\ Votes(s, h) = kept \cup {v}
    BY <1>4 DEF Ballot, Votes
  <2>2. TallyOf(s, h) = Cast(left, h.coinbase, h.nonce)
    BY <2>1 DEF TallyOf
  <2>3. v \in Vote
    BY DEF Vote, Header, Number, Snapshot
  <2>4. \A w \in kept : ~(w.signer = v.signer /\ w.address = v.address)
    BY <1>2
  <2>5. v \notin kept
    BY <2>4
  <2>6. v.address = h.coinbase /\ v.authorize = h.nonce /\ v.signer = h.signer
    OBVIOUS
  <2> HIDE DEF v, kept, left
  <2>7. VotesOK(kept \cup {v}, Cast(left, v.address, v.authorize), s.signers)
    BY <1>3, <1>4, <2>3, <2>4, <2>5, <2>6, CastCounts
  <2> QED BY <2>1, <2>2, <2>6, <2>7
<1>5. CASE ~ValidVote(s.signers, h.coinbase, h.nonce)
  <2>1. Ballot(s, h) = {}
    BY <1>5 DEF Ballot
  <2>2. Votes(s, h) = kept /\ TallyOf(s, h) = left
    BY <2>1 DEF Votes, TallyOf
  <2> QED BY <1>3, <2>2
<1> QED BY <1>4, <1>5

\* What is left of the votes when the proposal passed, or did not.
LEMMA ApplyVotes ==
  ASSUME NEW s \in Snapshot, VotesOK(s.votes, s.tally, s.signers),
         NEW h \in Header, h.signer \in s.signers
  PROVE  /\ Signers(s, h) \in SUBSET Address
         /\ VotesOK(Apply(s, h).votes, Apply(s, h).tally, Signers(s, h))
<1> DEFINE votes == Votes(s, h)
           tally == TallyOf(s, h)
           c     == h.coinbase
           gone  == Orphaned(s, h)
           rest  == votes \ gone
           mid   == Uncast(tally, gone)
           last  == Apply(s, h).votes
           final == Apply(s, h).tally
           S     == Signers(s, h)
<1>1. VotesOK(votes, tally, s.signers)
  BY BallotOK
<1>2. gone \subseteq votes
  BY DEF Orphaned
<1>3. VotesOK(rest, mid, s.signers)
  BY <1>1, <1>2, UncastCounts
<1>4. S \in SUBSET Address /\ \A a \in Address : a # c => (a \in S <=> a \in s.signers)
  BY DEF Signers, Snapshot, Header
<1>5. CASE ~Passed(s, h)
  <2>1. S = s.signers
    BY <1>5 DEF Signers, Dropped
  <2>2. last = rest
    BY <1>5 DEF Apply
  <2>3. final = mid
    BY <1>5 DEF Apply, Uncast
  <2> QED BY <1>3, <1>4, <2>1, <2>2, <2>3
<1>6. CASE Passed(s, h)
  <2>1. last = {v \in rest : v.address # c}
    BY <1>6 DEF Apply
  <2>2. final = [a \in Address |-> IF a = c THEN NoTally ELSE mid[a]]
    BY <1>6 DEF Apply
  <2>3. \A v \in last : v.signer \in S
    <3>1. \A v \in last : v.signer \in s.signers
      BY <1>3, <2>1 DEF VotesOK
    <3>2. CASE Dropped(s, h)
      BY <2>1, <3>1, <3>2 DEF Signers, Orphaned
    <3>3. CASE ~Dropped(s, h)
      BY <1>6, <3>1, <3>3 DEF Signers
    <3> QED BY <3>2, <3>3
  <2> HIDE DEF last, final, S, rest, mid
  <2>4. IsFiniteSet(last) /\ last \subseteq Vote
    BY <1>3, <2>1, FS_Subset DEF VotesOK
  <2>5. final \in [Address -> Tally]
    BY <1>3, <2>2 DEF VotesOK, Tally
  <2>6. ASSUME NEW a \in Address
        PROVE  /\ final[a].votes = Cardinality(About(last, a))
               /\ \A v \in About(last, a) : v.authorize = final[a].authorize /\ ValidVote(S, a, v.authorize)
    <3>1. CASE a = c
      <4>1. About(last, a) = {} /\ final[a] = NoTally
        BY <2>1, <2>2, <3>1 DEF About
      <4> QED BY <4>1, FS_EmptySet DEF NoTally
    <3>2. CASE a # c
      <4>1. About(last, a) = About(rest, a) /\ final[a] = mid[a]
        BY <2>1, <2>2, <3>2 DEF About
      <4>2. \A x : ValidVote(S, a, x) <=> ValidVote(s.signers, a, x)
        BY <1>4, <3>2 DEF ValidVote
      <4> QED BY <1>3, <4>1, <4>2 DEF VotesOK, Counts
    <3> QED BY <3>1, <3>2
  <2>7. Counts(last, final, S)
    BY <2>6 DEF Counts
  <2>8. Unique(last)
    BY <1>3, <2>1 DEF VotesOK, Unique
  <2>9. VotesOK(last, final, S)
    BY <2>3, <2>4, <2>5, <2>7, <2>8 DEF VotesOK
  <2> QED BY <1>4, <2>9 DEF last, final, S
<1> QED BY <1>5, <1>6
\* The window stays a window when the number of signers changes by one.
LEMMA ApplyRecents ==
  ASSUME NEW s \in Snapshot, RecentsOK(s.recents, s.number, Limit(s.signers)),
         NEW h \in Header, MaySign(s, h.signer)
  PROVE  RecentsOK(NewRecents(s, h), Number(s), Limit(Signers(s, h)))
<1> DEFINE n   == Number(s)
           L   == Limit(s.signers)
           S   == Signers(s, h)
           M   == Limit(S)
           new == [block |-> n, signer |-> h.signer]
           old == {r \in Recents(s) : r.block # n}
           all == old \cup {new}
<1>1. s.number \in Nat /\ n \in Nat /\ n = s.number + 1 /\ s.signers \in SUBSET Address
  BY DEF Snapshot, Number
<1>2. L \in Nat /\ L >= 1
  BY <1>1, LimitFacts
<1>3. S \in SUBSET Address
  BY DEF Signers, Snapshot, Header
<1>4. M \in Nat /\ M >= 1
  BY <1>3, LimitFacts
<1>5. M >= L - 1 /\ (~Dropped(s, h) => M >= L)
  <2> DEFINE k == Cardinality(s.signers)
             m == Cardinality(S)
  <2>1. k \in Nat /\ IsFiniteSet(s.signers) /\ L = k \div 2 + 1
    BY <1>1, LimitFacts
  <2>2. m \in Nat /\ M = m \div 2 + 1
    BY <1>3, LimitFacts
  <2>3. m >= k - 1 /\ (~Dropped(s, h) => m >= k)
    <3>1. CASE Dropped(s, h)
      <4>1. S = s.signers \ {h.coinbase}
        BY <3>1 DEF Signers
      <4>3. Cardinality(s.signers \ {h.coinbase}) \in {k, k - 1}
        BY <2>1, FS_RemoveElement
      <4>2. m = k \/ m = k - 1
        BY <4>1, <4>3
      <4> HIDE DEF m, k
      <4> QED BY <2>1, <3>1, <4>2
    <3>2. CASE ~Dropped(s, h)
      <4>1. S = s.signers \/ S = s.signers \cup {h.coinbase}
        BY <3>2 DEF Signers
      <4>2. m = k \/ m = k + 1
        BY <2>1, <4>1, FS_AddElement
      <4> HIDE DEF m, k
      <4> QED BY <2>1, <3>2, <4>2
    <3> QED BY <3>1, <3>2
  <2> HIDE DEF k, m, L, M, S
  <2> QED BY <2>1, <2>2, <2>3
<1> HIDE DEF S, L, M
<1>6. \A r \in old : r \in Recent /\ n - L < r.block /\ r.block < n /\ r.signer # h.signer
  <2>1. \A r \in old : r \in s.recents /\ r.block # n - L /\ r.block # n /\ r.signer # h.signer
    BY DEF Recents, Shift, MaySign, L
  <2>2. \A r \in s.recents : r \in Recent /\ s.number - L < r.block /\ r.block <= s.number
    BY DEF RecentsOK, L
  <2>3. \A r \in Recent : r.block \in Nat
    BY DEF Recent
  <2> QED BY <1>1, <1>2, <2>1, <2>2, <2>3
<1>7. new \in Recent /\ new.block = n /\ new.signer = h.signer
  BY <1>1 DEF Recent, Header
<1>8. \A r, q \in old : r.signer = q.signer \/ r.block = q.block => r = q
  BY DEF RecentsOK, Recents, Shift
<1> HIDE DEF new, old, n
<1>9. \A r, q \in all : r.signer = q.signer \/ r.block = q.block => r = q
  BY <1>1, <1>6, <1>7, <1>8
<1>10. \A r \in all : r \in Recent /\ r.block \in Nat /\ n - L < r.block /\ r.block <= n
  BY <1>1, <1>2, <1>6, <1>7 DEF Recent
<1>11. CASE Dropped(s, h)
  <2>1. NewRecents(s, h) = {r \in all : r.block # n - M}
    BY <1>11 DEF NewRecents, Shift, all, old, new, n, M, S
  <2>2. \A r \in all : r.block # n - M => n - M < r.block
    BY <1>1, <1>2, <1>4, <1>5, <1>10
  <2> HIDE DEF all
  <2>3. RecentsOK(NewRecents(s, h), n, M)
    BY <1>9, <1>10, <2>1, <2>2 DEF RecentsOK
  <2> QED BY <2>3 DEF n, M, S
<1>12. CASE ~Dropped(s, h)
  <2>1. NewRecents(s, h) = all
    BY <1>12 DEF NewRecents, all, old, new, n
  <2>2. \A r \in all : n - M < r.block
    BY <1>1, <1>2, <1>4, <1>5, <1>10, <1>12
  <2> HIDE DEF all
  <2>3. RecentsOK(NewRecents(s, h), n, M)
    BY <1>9, <1>10, <2>1, <2>2 DEF RecentsOK
  <2> QED BY <2>3 DEF n, M, S
<1> QED BY <1>11, <1>12

-----------------------------------------------------------------------------
\* The invariant is inductive: of the genesis snapshot ...
LEMMA ChainStarts == ChainInit => ChainInv
<1> SUFFICES ASSUME ChainInit PROVE ChainInv
  OBVIOUS
<1> DEFINE s == NewSnapshot(0, GenesisSigners)
<1>1. snap = s
  BY DEF ChainInit
<1>2. s.number = 0 /\ s.signers = GenesisSigners /\ s.recents = {} /\ s.votes = {}
      /\ s.tally = [a \in Address |-> NoTally]
  BY DEF NewSnapshot
<1>3. s \in Snapshot
  BY GenesisAssumption DEF NewSnapshot, Snapshot, Tally
<1>4. Counts({}, s.tally, s.signers)
  <2>1. \A a \in Address : About({}, a) = {} /\ s.tally[a].votes = 0
    BY <1>2 DEF About, NoTally
  <2> QED BY <2>1, FS_EmptySet DEF Counts
<1>5. VotesOK({}, s.tally, s.signers)
  BY <1>2, <1>4, FS_EmptySet DEF VotesOK, Unique, Tally
<1>6. RecentsOK({}, 0, Limit(s.signers))
  BY DEF RecentsOK
<1> QED BY <1>1, <1>2, <1>3, <1>5, <1>6 DEF ChainInv, ChainTypeOK, ChainInit

\* ... and kept by every block.
LEMMA ChainGrows == ChainInv /\ [ChainNext]_chainVars => ChainInv'
<1> SUFFICES ASSUME ChainInv, [ChainNext]_chainVars PROVE ChainInv'
  OBVIOUS
<1>1. ASSUME NEW h \in Header, Extend(h) PROVE ChainInv'
  <2> DEFINE t == Apply(snap, h)
  <2>1. snap \in Snapshot /\ VotesOK(snap.votes, snap.tally, snap.signers)
        /\ RecentsOK(snap.recents, snap.number, Limit(snap.signers)) /\ dead \in BOOLEAN
    BY DEF ChainInv, ChainTypeOK
  <2>2. snap' = t /\ dead' = dead /\ MaySign(snap, h.signer) /\ h.signer \in snap.signers
    BY <1>1 DEF Extend, MaySign
  <2>3. Signers(snap, h) \in SUBSET Address /\ VotesOK(t.votes, t.tally, Signers(snap, h))
    BY <2>1, <2>2, ApplyVotes
  <2>4. RecentsOK(NewRecents(snap, h), Number(snap), Limit(Signers(snap, h)))
    BY <2>1, <2>2, ApplyRecents
  <2>5. t.number = Number(snap) /\ t.signers = Signers(snap, h) /\ t.recents = NewRecents(snap, h)
        /\ t = [number |-> t.number, signers |-> t.signers, recents |-> t.recents,
                votes |-> t.votes, tally |-> t.tally]
    BY DEF Apply
  <2>6. t.number \in Nat
    BY <2>1, <2>5 DEF Number, Snapshot
  <2> HIDE DEF t
  <2>7. t \in Snapshot
    BY <2>3, <2>4, <2>5, <2>6 DEF Snapshot, VotesOK, RecentsOK
  <2> QED BY <2>1, <2>2, <2>3, <2>4, <2>5, <2>7 DEF ChainInv, ChainTypeOK
<1>2. ASSUME NEW h \in Header, Bury(h) PROVE ChainInv'
  BY <1>2 DEF Bury, ChainInv, ChainTypeOK
<1>3. ASSUME UNCHANGED chainVars PROVE ChainInv'
  BY <1>3 DEF chainVars, ChainInv, ChainTypeOK
<1> QED BY <1>1, <1>2, <1>3 DEF ChainNext

\* The inductive invariant holds of every chain.
THEOREM ChainInvariant == ChainSpec => []ChainInv
BY ChainStarts, ChainGrows, PTL DEF ChainSpec

\* Snapshots are well formed.
THEOREM SnapshotsTyped == ChainSpec => []ChainTypeOK
<1>1. ChainInv => ChainTypeOK
  BY DEF ChainInv
<1> QED BY <1>1, ChainInvariant, PTL

\* The cached tally is the number of votes in the list (snapshot.go:49-60).
THEOREM TallyIsCount == ChainSpec => []TallyCounts
<1>1. ChainInv => TallyCounts
  BY DEF ChainInv, TallyCounts, VotesOK, Counts
<1> QED BY <1>1, ChainInvariant, PTL

\* "only one vote allowed" (snapshot.go:236), and only for signers.
THEOREM VotesUnique == ChainSpec => []OneVoteEach
<1>1. ChainInv => OneVoteEach
  BY DEF ChainInv, OneVoteEach, VotesOK, Unique
<1> QED BY <1>1, ChainInvariant, PTL

\* The tally counts signers.
THEOREM VotesStayCounted == ChainSpec => []VotesCounted
<1>1. TallyCounts /\ OneVoteEach => VotesCounted
  BY DEF VotesCounted
<1> QED BY <1>1, TallyIsCount, VotesUnique, PTL

\* No signer signs twice within a window (snapshot.go:209-226).
THEOREM NoRecentTwice == ChainSpec => []RecentsWindow
<1>1. ChainInv => RecentsWindow
  BY DEF ChainInv, RecentsWindow, RecentsOK
<1> QED BY <1>1, ChainInvariant, PTL
-----------------------------------------------------------------------------
\* The window of recent signers never blocks all signers: there are fewer places
\* in it than signers.
THEOREM SignerAvailable == ChainSpec => []SomeoneMaySign
<1>1. ASSUME ChainInv PROVE SomeoneMaySign
  <2> SUFFICES ASSUME snap.signers # {}, \A x \in snap.signers : ~MaySign(snap, x)
               PROVE  FALSE
    BY DEF SomeoneMaySign
  <2> DEFINE S == snap.signers
             n == snap.number
             L == Limit(S)
             k == Cardinality(S)
             T == (n - L + 2)..n
  <2>1. S \in SUBSET Address /\ n \in Nat
    BY <1>1 DEF ChainInv, ChainTypeOK, Snapshot
  <2>2. IsFiniteSet(S) /\ k \in Nat /\ L = k \div 2 + 1 /\ L \in Nat
    BY <2>1, LimitFacts
  <2>3. k # 0
    BY <2>2, FS_EmptySet
  <2>4. \A x \in S : \E r \in Recents(snap) : r.signer = x
    BY DEF MaySign
  <2>5. \A r \in Recents(snap) : r \in snap.recents /\ r.block \in T
    <3>1. \A r \in Recents(snap) : r \in snap.recents /\ r.block # n + 1 - L
      <4>1. \A r \in Recents(snap) : r \in snap.recents /\ r.block # Number(snap) - L
        BY DEF Recents, Shift
      <4> HIDE DEF L
      <4> QED BY <2>1, <2>2, <4>1 DEF Number
    <3>2. \A r \in snap.recents : r.block \in Nat /\ n - L < r.block /\ r.block <= n
      BY <1>1 DEF ChainInv, RecentsOK, Recent
    <3> HIDE DEF L, n
    <3>3. \A r \in Recents(snap) : n - L + 2 <= r.block /\ r.block <= n /\ r.block \in Int
      BY <2>1, <2>2, <3>1, <3>2
    <3>4. n - L + 2 \in Int /\ n \in Int
      BY <2>1, <2>2
    <3> QED BY <3>1, <3>3, <3>4
  <2> DEFINE f == [x \in S |-> (CHOOSE r \in Recents(snap) : r.signer = x).block]
  <2>6. \A x \in S : \E r \in snap.recents : r.signer = x /\ f[x] = r.block /\ r.block \in T
    BY <2>4, <2>5
  <2>7. f \in [S -> T]
    BY <2>6
  <2>8. IsFiniteSet(T) /\ Cardinality(T) < k
    <3> HIDE DEF L, n, k
    <3>1. n - L + 2 \in Int /\ n \in Int
      BY <2>1, <2>2
    <3>2. IsFiniteSet(T) /\ Cardinality(T) = IF n - L + 2 > n THEN 0 ELSE n - (n - L + 2) + 1
      BY <3>1, FS_Interval
    <3> HIDE DEF T
    <3> QED BY <2>1, <2>2, <2>3, <3>2
  <2> HIDE DEF f, T, S
  <2>9. \E x, y \in S : x # y /\ f[x] = f[y]
    BY <2>2, <2>7, <2>8, FS_PigeonHole DEF k
  <2>10. \A r, q \in snap.recents : r.block = q.block => r = q
    BY <1>1 DEF ChainInv, RecentsOK
  <2> QED BY <2>6, <2>9, <2>10
<1> QED BY <1>1, ChainInvariant, PTL

\* verifySeal, apply and Seal decide alike about recent signers once the chain is
\* longer than the window (clique.go:491-499, 640-648, snapshot.go:221-225).
THEOREM ChecksAlike == ChainSpec => []ChecksAgree
<1>1. ChainInit => snap.number <= MaxNumber
  BY NumberAssumption DEF ChainInit, NewSnapshot
<1>2. snap.number <= MaxNumber /\ ChainInv /\ [ChainNext]_chainVars => (snap.number <= MaxNumber)'
  <2> SUFFICES ASSUME snap.number <= MaxNumber, ChainInv, [ChainNext]_chainVars PROVE (snap.number <= MaxNumber)'
    OBVIOUS
  <2>1. snap.number \in Nat
    BY DEF ChainInv, ChainTypeOK, Snapshot
  <2>2. ASSUME NEW h \in Header, Extend(h) PROVE (snap.number <= MaxNumber)'
    <3>1. snap' = Apply(snap, h) /\ snap.number < MaxNumber
      BY <2>2 DEF Extend
    <3>2. snap'.number = snap.number + 1
      BY <3>1 DEF Apply, Number
    <3> QED BY <2>1, <3>1, <3>2, NumberAssumption
  <2>3. ASSUME NEW h \in Header, Bury(h) PROVE (snap.number <= MaxNumber)'
    BY <2>3 DEF Bury
  <2>4. ASSUME UNCHANGED chainVars PROVE (snap.number <= MaxNumber)'
    BY <2>4 DEF chainVars
  <2> QED BY <2>2, <2>3, <2>4 DEF ChainNext
<1>3. ASSUME ChainInv, snap.number <= MaxNumber PROVE ChecksAgree
  <2> DEFINE n == Number(snap)
             L == Limit(snap.signers)
  <2>1. snap.number \in Nat /\ n = snap.number + 1 /\ n \in Nat /\ L \in Nat /\ L >= 1
    BY <1>3, LimitFacts DEF ChainInv, ChainTypeOK, Snapshot, Number
  <2>2. \A r \in snap.recents : r.block \in Nat /\ snap.number - L < r.block
    BY <1>3 DEF ChainInv, RecentsOK, Recent
  <2> HIDE DEF n, L
  <2>3. \A r \in snap.recents : r.block <= n - L <=> r.block = n - L
    BY <2>1, <2>2
  <2>4. ASSUME NEW x \in Address
        PROVE  MaySign(snap, x) <=> /\ x \in snap.signers
                                    /\ \A r \in snap.recents : r.signer = x => r.block <= n - L
    BY <2>3 DEF MaySign, Recents, Shift, n, L
  <2>5. n >= L => (n - L) % Word = n - L
    <3>1. n >= L => n - L \in Nat /\ n - L < Word
      BY <1>3, <2>1, NumberAssumption, EpochAssumption
    <3> QED BY <3>1, EpochAssumption
  <2>6. ASSUME NEW x \in Address, MaySeal(snap, x) PROVE MaySign(snap, x)
    BY <2>4, <2>6 DEF MaySeal, n, L
  <2>7. ASSUME NEW h \in Header, n >= L PROVE VerifySeal(snap, h) <=> MaySign(snap, h.signer)
    <3>1. h.signer \in Address
      BY DEF Header
    <3>2. VerifySeal(snap, h) <=> /\ h.signer \in snap.signers
                                  /\ \A r \in snap.recents : r.signer = h.signer => r.block <= n - L
      BY <2>5, <2>7 DEF VerifySeal, n, L
    <3> QED BY <2>4, <3>1, <3>2
  <2> QED BY <2>6, <2>7 DEF ChecksAgree, n, L
<1> QED BY <1>1, <1>2, <1>3, ChainInvariant, PTL DEF ChainSpec

\* The signers change one at a time, by the votes of more than half of them.
THEOREM ChangesByMajority == ChainSpec => MajorityChanges
<1>1. ASSUME ChainInv, NEW h \in Header, Extend(h), snap'.signers # snap.signers
      PROVE  \E a \in Address :
               /\ snap'.signers \in {snap.signers \cup {a}, snap.signers \ {a}}
               /\ \E electors \in SUBSET snap.signers :
                    /\ Cardinality(electors) * 2 > Cardinality(snap.signers)
                    /\ \A s \in electors :
                         \/ \E v \in Pending(snap) : v.signer = s /\ v.address = a
                         \/ \E r \in snap'.recents : r = [block |-> snap'.number, signer |-> s]
  <2> DEFINE a == h.coinbase
             A == About(Votes(snap, h), a)
             E == {v.signer : v \in A}
             f == [v \in A |-> v.signer]
             k == Cardinality(snap.signers)
             new == [block |-> Number(snap), signer |-> h.signer]
  <2>1. snap \in Snapshot /\ VotesOK(snap.votes, snap.tally, snap.signers)
        /\ snap.number \in Nat /\ snap.signers \in SUBSET Address /\ a \in Address
    BY <1>1 DEF ChainInv, ChainTypeOK, Snapshot, Header
  <2>2. snap' = Apply(snap, h) /\ h.signer \in snap.signers
    BY <1>1 DEF Extend, MaySign
  <2>3. /\ snap'.signers = Signers(snap, h) /\ snap'.recents = NewRecents(snap, h)
        /\ snap'.number = Number(snap)
    BY <2>2 DEF Apply
  <2>4. Passed(snap, h) /\ Signers(snap, h) \in {snap.signers \cup {a}, snap.signers \ {a}}
    BY <1>1, <2>3 DEF Signers, Dropped
  <2>5. VotesOK(Votes(snap, h), TallyOf(snap, h), snap.signers)
    BY <2>1, <2>2, BallotOK
  <2>6. IsFiniteSet(A) /\ Cardinality(A) \in Nat /\ Cardinality(A) = TallyOf(snap, h)[a].votes
    BY <2>1, <2>5, FS_Subset, FS_CardinalityType DEF VotesOK, Counts, About
  <2>7. k \in Nat /\ Cardinality(A) > k \div 2
    BY <2>1, <2>4, <2>6, LimitFacts DEF Passed
  <2>8. E \in SUBSET snap.signers
    BY <2>5 DEF VotesOK, About
  <2>9. Cardinality(E) = Cardinality(A)
    <3>1. \A v, w \in A : v.signer = w.signer => v = w
      BY <2>5 DEF VotesOK, Unique, About
    <3> HIDE DEF A
    <3>2. f \in Surjection(A, E)
      BY DEF Surjection
    <3>3. f \in Injection(A, E)
      BY <3>1 DEF Injection, IsInjective
    <3> HIDE DEF f, E
    <3> QED BY <2>6, <3>2, <3>3, FS_Surjection
  <2>10. Cardinality(E) * 2 > k
    <3> HIDE DEF E, A, k
    <3> QED BY <2>6, <2>7, <2>9
  <2>11. new \in NewRecents(snap, h)
    <3>1. Limit(Signers(snap, h)) \in Nat /\ Limit(Signers(snap, h)) >= 1
      BY <2>1, <2>4, LimitFacts
    <3>2. Number(snap) # Number(snap) - Limit(Signers(snap, h))
      BY <2>1, <3>1 DEF Number
    <3>3. new.block = Number(snap)
      OBVIOUS
    <3> HIDE DEF new
    <3>4. new \in {r \in Recents(snap) : r.block # Number(snap)} \cup {new}
      OBVIOUS
    <3> QED BY <3>2, <3>3, <3>4 DEF NewRecents, Shift, new
  <2>12. ASSUME NEW s \in E
         PROVE  \/ \E v \in Pending(snap) : v.signer = s /\ v.address = a
                \/ \E r \in snap'.recents : r = [block |-> snap'.number, signer |-> s]
    <3>1. PICK v \in Votes(snap, h) : v.address = a /\ v.signer = s
      BY DEF About
    <3>2. CASE v \in Pending(snap)
      BY <3>1, <3>2
    <3>3. CASE v \in Ballot(snap, h)
      <4>1. s = h.signer
        BY <3>1, <3>3 DEF Ballot
      <4> QED BY <2>3, <2>11, <4>1
    <3> QED BY <3>2, <3>3 DEF Votes
  <2> HIDE DEF E, a
  <2> QED BY <2>1, <2>3, <2>4, <2>8, <2>10, <2>12 DEF k
<1>2. ChainInv /\ [ChainNext]_chainVars =>
        [snap'.signers # snap.signers =>
       \E a \in Address :
         /\ snap'.signers \in {snap.signers \cup {a}, snap.signers \ {a}}
         /\ \E electors \in SUBSET snap.signers :
              /\ Cardinality(electors) * 2 > Cardinality(snap.signers)
              /\ \A s \in electors :
                   \/ \E v \in Pending(snap) : v.signer = s /\ v.address = a
                   \/ \E r \in snap'.recents : r = [block |-> snap'.number, signer |-> s]]_chainVars
  BY <1>1 DEF ChainNext, Bury, chainVars
<1> QED BY <1>2, ChainInvariant, PTL DEF ChainSpec, MajorityChanges

-----------------------------------------------------------------------------
(* The engine: induction over numbers                                      *)

\* A set of numbers has a least one: the form of induction used below.
LEMMA LeastNat ==
  ASSUME NEW T, T \subseteq Nat, T # {}
  PROVE  \E x \in T : \A y \in T : x <= y
<1> DEFINE R == OpToRel(<, Nat)
<1>1. IsWellFoundedOn(R, Nat)
  BY NatLessThanWellFounded
<1>2. \A x, y \in Nat : x < y => <<x, y>> \in R
  BY DEF OpToRel
<1> HIDE DEF R
<1>3. PICK x \in T : \A y \in T : ~(<<y, x>> \in R)
  BY <1>1, WFMin
<1>4. \A y \in T : x <= y
  <2> SUFFICES ASSUME NEW y \in T PROVE x <= y
    OBVIOUS
  <2>1. x \in Nat /\ y \in Nat /\ ~(y < x)
    BY <1>2, <1>3
  <2> QED BY <2>1
<1> QED BY <1>4

\* The latest of the numbers up to a bound.
LEMMA LatestNat ==
  ASSUME NEW L \in Nat, NEW T, T \subseteq 0..L, T # {}
  PROVE  Max(T) \in T /\ \A y \in T : y <= Max(T)
<1> DEFINE D == {L - y : y \in T}
<1>1. D \subseteq Nat /\ D # {}
  <2>1. ASSUME NEW y \in T PROVE L - y \in Nat
    OBVIOUS
  <2> QED BY <2>1
<1>2. PICK d \in D : \A e \in D : d <= e
  BY <1>1, LeastNat
<1>3. PICK x \in T : d = L - x
  BY <1>2
<1>4. \A y \in T : x >= y
  <2> SUFFICES ASSUME NEW y \in T PROVE x >= y
    OBVIOUS
  <2>1. L - x <= L - y
    BY <1>2, <1>3
  <2> QED BY <2>1
<1>5. \E z \in T : \A y \in T : z >= y
  BY <1>4
<1>6. Max(T) \in T /\ \A y \in T : Max(T) >= y
  BY <1>5 DEF Max
<1> QED BY <1>6

-----------------------------------------------------------------------------
(* apply, over a list of headers                                           *)

\* The snapshot after one more header, or the failure.
After(s, h) == IF s # NoSnapshot /\ MaySign(s, h.signer) THEN Apply(s, h) ELSE NoSnapshot

\* f lists the snapshots after 0, ..., n headers.
Lists(f, sn, headers, n) ==
  f = [i \in 0..n |-> IF i = 0 THEN sn ELSE After(f[i - 1], headers[i])]

\* The first snapshot is given, each other one follows from the one before it.
LEMMA ListStep ==
  \A sn, headers, f : \A n \in Nat :
    Lists(f, sn, headers, n) =>
      /\ DOMAIN f = 0..n /\ f[0] = sn
      /\ \A i \in 1..n : f[i] = After(f[i - 1], headers[i])
<1> SUFFICES ASSUME NEW sn, NEW headers, NEW f, NEW n \in Nat, Lists(f, sn, headers, n)
             PROVE  /\ DOMAIN f = 0..n /\ f[0] = sn
                    /\ \A i \in 1..n : f[i] = After(f[i - 1], headers[i])
  OBVIOUS
<1>1. f = [i \in 0..n |-> IF i = 0 THEN sn ELSE After(f[i - 1], headers[i])]
  BY DEF Lists
<1>2. DOMAIN f = 0..n
  BY <1>1, Zenon
<1>3. ASSUME NEW i \in 0..n PROVE f[i] = IF i = 0 THEN sn ELSE After(f[i - 1], headers[i])
  BY <1>1
<1> QED BY <1>2, <1>3

\* There is such a list for any headers.
LEMMA ListExists ==
  ASSUME NEW sn, NEW headers, NEW n \in Nat
  PROVE  \E f : Lists(f, sn, headers, n)
<1> DEFINE T == {k \in Nat : ~\E f : Lists(f, sn, headers, k)}
<1> SUFFICES ASSUME T # {} PROVE FALSE
  OBVIOUS
<1>1. PICK k \in T : \A j \in T : k <= j
  BY LeastNat
<1>2. CASE k = 0
  <2> DEFINE f == [i \in 0..0 |-> sn]
  <2>1. Lists(f, sn, headers, 0)
    BY DEF Lists
  <2> QED BY <1>1, <1>2, <2>1
<1>3. CASE k # 0
  <2>1. k \in Nat /\ k - 1 \in Nat /\ k - 1 \notin T
    BY <1>1, <1>3
  <2>2. PICK f : Lists(f, sn, headers, k - 1)
    BY <2>1
  <2> DEFINE g == [i \in 0..k |-> IF i = k THEN After(f[k - 1], headers[k]) ELSE f[i]]
  <2>3. /\ DOMAIN f = 0..(k - 1) /\ f[0] = sn
        /\ \A i \in 1..(k - 1) : f[i] = After(f[i - 1], headers[i])
    BY <2>1, <2>2, ListStep
  <2>4. ASSUME NEW i \in 0..k
        PROVE  g[i] = IF i = 0 THEN sn ELSE After(g[i - 1], headers[i])
    <3>1. CASE i = 0
      BY <1>3, <2>1, <2>3, <3>1
    <3>2. CASE i # 0 /\ i # k
      <4>1. g[i] = f[i] /\ g[i - 1] = f[i - 1] /\ i \in 1..(k - 1)
        BY <2>1, <3>2
      <4> QED BY <2>3, <3>2, <4>1
    <3>3. CASE i = k
      <4>1. g[k] = After(f[k - 1], headers[k]) /\ g[k - 1] = f[k - 1]
        BY <1>3, <2>1
      <4> QED BY <1>3, <3>3, <4>1
    <3> QED BY <3>1, <3>2, <3>3
  <2>5. g = [i \in 0..k |-> IF i = 0 THEN sn ELSE After(g[i - 1], headers[i])]
    BY <2>4
  <2>6. Lists(g, sn, headers, k)
    BY <2>5 DEF Lists
  <2> QED BY <1>1, <2>6
<1> QED BY <1>2, <1>3

\* Lists of the same headers agree as far as both go.
LEMMA ListsAgree ==
  \A sn, hs, ks, f, g : \A m, n, l \in Nat :
    /\ Lists(f, sn, hs, m) /\ Lists(g, sn, ks, n)
    /\ l <= m /\ l <= n /\ \A i \in 1..l : hs[i] = ks[i]
    => f[l] = g[l]
<1> SUFFICES ASSUME NEW sn, NEW hs, NEW ks, NEW f, NEW g, NEW m \in Nat, NEW n \in Nat, NEW l \in Nat,
                    Lists(f, sn, hs, m), Lists(g, sn, ks, n),
                    l <= m, l <= n, \A i \in 1..l : hs[i] = ks[i]
             PROVE  f[l] = g[l]
  OBVIOUS
<1> DEFINE T == {k \in Nat : k <= l /\ f[k] # g[k]}
<1> SUFFICES ASSUME T # {} PROVE FALSE
  OBVIOUS
<1>1. PICK k \in T : \A j \in T : k <= j
  BY LeastNat
<1>2. /\ f[0] = g[0]
      /\ \A i \in 1..m : f[i] = After(f[i - 1], hs[i])
      /\ \A i \in 1..n : g[i] = After(g[i - 1], ks[i])
  <2>1. f[0] = sn /\ \A i \in 1..m : f[i] = After(f[i - 1], hs[i])
    BY ListStep
  <2>2. g[0] = sn /\ \A i \in 1..n : g[i] = After(g[i - 1], ks[i])
    BY ListStep
  <2> QED BY <2>1, <2>2
<1>3. k \in Nat /\ k <= l /\ f[k] # g[k]
  OBVIOUS
<1>4. k \in 1..l /\ k \in 1..m /\ k \in 1..n /\ k - 1 \in Nat /\ k - 1 <= l
  BY <1>2, <1>3
<1>5. f[k - 1] = g[k - 1]
  BY <1>1, <1>4
<1>6. hs[k] = ks[k]
  BY <1>4
<1> QED BY <1>2, <1>3, <1>4, <1>5, <1>6

\* ApplyAll is the last snapshot of the list.
LEMMA ApplyAllLists ==
  ASSUME NEW sn, NEW headers, Len(headers) \in Nat, NEW f, Lists(f, sn, headers, Len(headers))
  PROVE  ApplyAll(sn, headers) = f[Len(headers)]
<1> DEFINE g == CHOOSE g : g = [n \in 0 .. Len(headers) |->
                                  IF n = 0 THEN sn
                                  ELSE IF g[n - 1] # NoSnapshot /\ MaySign(g[n - 1], headers[n].signer)
                                         THEN Apply(g[n - 1], headers[n]) ELSE NoSnapshot]
<1>1. ApplyAll(sn, headers) = g[Len(headers)]
  BY DEF ApplyAll
<1>2. f = [n \in 0 .. Len(headers) |->
             IF n = 0 THEN sn
             ELSE IF f[n - 1] # NoSnapshot /\ MaySign(f[n - 1], headers[n].signer)
                    THEN Apply(f[n - 1], headers[n]) ELSE NoSnapshot]
  BY DEF Lists, After
<1>3. g = [n \in 0 .. Len(headers) |->
             IF n = 0 THEN sn
             ELSE IF g[n - 1] # NoSnapshot /\ MaySign(g[n - 1], headers[n].signer)
                    THEN Apply(g[n - 1], headers[n]) ELSE NoSnapshot]
  BY <1>2
<1> HIDE DEF g
<1>4. Lists(g, sn, headers, Len(headers))
  BY <1>3 DEF Lists, After
<1>5. f[Len(headers)] = g[Len(headers)]
  BY <1>4, ListsAgree
<1> QED BY <1>1, <1>5

\* Applying no header.
LEMMA ApplyNone ==
  \A sn, headers : Len(headers) = 0 => ApplyAll(sn, headers) = sn
<1> SUFFICES ASSUME NEW sn, NEW headers, Len(headers) = 0
             PROVE  ApplyAll(sn, headers) = sn
  OBVIOUS
<1>1. PICK f : Lists(f, sn, headers, 0)
  BY ListExists
<1>2. f[0] = sn
  <2>1. 0 \in Nat
    OBVIOUS
  <2> QED BY <1>1, <2>1, ListStep
<1> QED BY <1>1, <1>2, ApplyAllLists

\* Applying one more header.
LEMMA ApplyOne ==
  ASSUME NEW sn, NEW headers \in Seq(Sealed), Len(headers) # 0
  PROVE  ApplyAll(sn, headers) =
           After(ApplyAll(sn, SubSeq(headers, 1, Len(headers) - 1)), headers[Len(headers)])
<1> DEFINE L == Len(headers)
<1>0. PICK k \in Nat : k = L - 1
  <2>1. L \in Nat /\ L # 0
    OBVIOUS
  <2> QED BY <2>1
<1> DEFINE before == SubSeq(headers, 1, k)
<1>1. /\ L \in Nat /\ L = k + 1 /\ k <= L /\ k <= k
      /\ Len(before) = k /\ \A i \in 1..k : headers[i] = before[i]
  <2>1. L \in Nat /\ L = k + 1 /\ k <= L /\ k <= k /\ k \in 0..L
    BY <1>0
  <2>2. Len(before) = k /\ \A i \in 1..k : headers[i] = before[i]
    BY <2>1, SubSeqProperties
  <2> QED BY <2>1, <2>2
<1> HIDE DEF before
<1>2. PICK f : Lists(f, sn, headers, L)
  BY <1>1, ListExists
<1>3. PICK g : Lists(g, sn, before, k)
  BY <1>1, ListExists
<1>4. ApplyAll(sn, headers) = f[L]
  BY <1>1, <1>2, ApplyAllLists
<1>5. ApplyAll(sn, before) = g[k]
  BY <1>1, <1>3, ApplyAllLists
<1>6. f[k] = g[k]
  BY <1>1, <1>2, <1>3, ListsAgree
<1>7. f[L] = After(f[k], headers[L])
  <2>1. L \in 1..L /\ L - 1 = k
    BY <1>1
  <2> QED BY <1>1, <1>2, <2>1, ListStep
<1> QED BY <1>0, <1>4, <1>5, <1>6, <1>7 DEF before

\* Applying headers in two portions.
LEMMA ApplyBoth ==
  ASSUME NEW sn, NEW headers \in Seq(Sealed), NEW k \in 0..Len(headers)
  PROVE  ApplyAll(sn, headers) =
           ApplyAll(ApplyAll(sn, SubSeq(headers, 1, k)), SubSeq(headers, k + 1, Len(headers)))
<1> DEFINE L == Len(headers)
           first == SubSeq(headers, 1, k)
           rest == SubSeq(headers, k + 1, L)
<1>1. /\ L \in Nat /\ k \in Nat /\ L - k \in Nat
      /\ Len(first) = k /\ \A i \in 1..k : headers[i] = first[i]
      /\ Len(rest) = L - k /\ \A i \in 1..(L - k) : rest[i] = headers[i + k]
  OBVIOUS
<1> HIDE DEF first, rest
<1>2. PICK f : Lists(f, sn, headers, L)
  BY <1>1, ListExists
<1>3. PICK g : Lists(g, sn, first, k)
  BY <1>1, ListExists
<1>4. ApplyAll(sn, headers) = f[L]
  BY <1>1, <1>2, ApplyAllLists
<1>5. ApplyAll(sn, first) = g[k]
  BY <1>1, <1>3, ApplyAllLists
<1>6. f[k] = g[k]
  <2>1. k <= L /\ k <= k
    BY <1>1
  <2> QED BY <1>1, <1>2, <1>3, <2>1, ListsAgree
<1> DEFINE h == [i \in 0..(L - k) |-> f[i + k]]
<1>7. \A i \in 1..L : f[i] = After(f[i - 1], headers[i])
  BY <1>1, <1>2, ListStep
<1>8. Lists(h, f[k], rest, L - k)
  <2>1. ASSUME NEW i \in 0..(L - k)
        PROVE  h[i] = IF i = 0 THEN f[k] ELSE After(h[i - 1], rest[i])
    <3>1. CASE i = 0
      BY <1>1, <3>1
    <3>2. CASE i # 0
      <4>1. i + k \in 1..L /\ i \in 1..(L - k) /\ i - 1 \in 0..(L - k) /\ (i - 1) + k = (i + k) - 1
        BY <1>1, <3>2
      <4>2. h[i] = f[i + k] /\ h[i - 1] = f[(i + k) - 1] /\ rest[i] = headers[i + k]
        BY <1>1, <4>1
      <4> QED BY <1>7, <3>2, <4>1, <4>2
    <3> QED BY <3>1, <3>2
  <2> QED BY <2>1 DEF Lists
<1>9. ApplyAll(f[k], rest) = h[L - k]
  <2> HIDE DEF h
  <2> QED BY <1>1, <1>8, ApplyAllLists
<1>10. h[L - k] = f[L]
  <2>1. L - k \in 0..(L - k) /\ (L - k) + k = L
    BY <1>1
  <2> QED BY <2>1
<1> QED BY <1>4, <1>5, <1>6, <1>9, <1>10 DEF first, rest

-----------------------------------------------------------------------------
(* Parts of a block's list of headers                                      *)

\* The headers after number m, up to number n.
LEMMA Part ==
  ASSUME NEW b \in Seq(Sealed), NEW m \in Nat, NEW n \in Nat, m <= n, n <= Len(b)
  PROVE  /\ SubSeq(b, m + 1, n) \in Seq(Sealed) /\ Len(SubSeq(b, m + 1, n)) = n - m
         /\ \A i \in 1..(n - m) : SubSeq(b, m + 1, n)[i] = b[m + i]
<1>1. \A i \in (m + 1)..n : b[i] \in Sealed
  OBVIOUS
<1>2. m + 1 \in Int /\ n \in Int
  OBVIOUS
<1>3. /\ SubSeq(b, m + 1, n) \in Seq(Sealed)
      /\ Len(SubSeq(b, m + 1, n)) = IF m + 1 <= n THEN n - (m + 1) + 1 ELSE 0
      /\ \A i \in 1 .. n - (m + 1) + 1 : SubSeq(b, m + 1, n)[i] = b[(m + 1) + i - 1]
  BY <1>1, <1>2, SubSeqProperties
<1>4. n - (m + 1) + 1 = n - m /\ (IF m + 1 <= n THEN n - (m + 1) + 1 ELSE 0) = n - m
  OBVIOUS
<1>5. ASSUME NEW i \in 1..(n - m) PROVE SubSeq(b, m + 1, n)[i] = b[m + i]
  <2>1. SubSeq(b, m + 1, n)[i] = b[(m + 1) + i - 1]
    BY <1>3, <1>4
  <2>2. (m + 1) + i - 1 = m + i
    OBVIOUS
  <2> QED BY <2>1, <2>2
<1> QED BY <1>3, <1>4, <1>5

\* The ancestor of a number.
LEMMA Ancestor ==
  ASSUME NEW b \in Seq(Sealed), NEW n \in 0..Len(b)
  PROVE  /\ SubSeq(b, 1, n) \in Seq(Sealed) /\ Len(SubSeq(b, 1, n)) = n
         /\ \A i \in 1..n : SubSeq(b, 1, n)[i] = b[i]
<1>1. 0 \in Nat /\ n \in Nat /\ 0 <= n /\ n <= Len(b) /\ 0 + 1 = 1 /\ n - 0 = n
  OBVIOUS
<1>2. /\ SubSeq(b, 0 + 1, n) \in Seq(Sealed) /\ Len(SubSeq(b, 0 + 1, n)) = n - 0
      /\ \A i \in 1..(n - 0) : SubSeq(b, 0 + 1, n)[i] = b[0 + i]
  BY <1>1, Part
<1>3. \A i \in 1..n : 0 + i = i
  OBVIOUS
<1> QED BY <1>1, <1>2, <1>3

\* Lists with the same headers are the same block.
LEMMA SameSeq ==
  ASSUME NEW a \in Seq(Sealed), NEW b \in Seq(Sealed), Len(a) = Len(b),
         \A i \in 1..Len(a) : a[i] = b[i]
  PROVE  a = b
OBVIOUS

\* A replay can be interrupted at an ancestor.
LEMMA ReplayOn ==
  ASSUME NEW b \in Seq(Sealed), NEW n \in 0..Len(b), NEW k \in 0..n
  PROVE  Replay(b, k) = ApplyAll(Replay(SubSeq(b, 1, n), k), SubSeq(b, n + 1, Len(b)))
<1> DEFINE L    == Len(b)
           a    == SubSeq(b, 1, n)
           new  == NewSnapshot(k, IF k = 0 THEN GenesisSigners ELSE b[k].extra)
           rest == SubSeq(b, k + 1, L)
<1>1. /\ L \in Nat /\ n \in Nat /\ k \in Nat /\ k <= n /\ n <= L /\ k <= L
      /\ n - k \in Nat /\ L - n \in Nat /\ n - k <= L - k /\ L - k \in Nat /\ n - k \in 0..(L - k)
  OBVIOUS
<1>2. a \in Seq(Sealed) /\ Len(a) = n /\ \A i \in 1..n : a[i] = b[i]
  BY Ancestor
<1>3. Replay(a, k) = ApplyAll(new, SubSeq(a, k + 1, n))
  <2>1. k # 0 => a[k] = b[k]
    BY <1>1, <1>2
  <2> QED BY <1>2, <2>1 DEF Replay
<1>4. rest \in Seq(Sealed) /\ Len(rest) = L - k /\ \A i \in 1..(L - k) : rest[i] = b[k + i]
  BY <1>1, Part
<1> HIDE DEF a
<1>5. SubSeq(a, k + 1, n) = SubSeq(rest, 1, n - k)
  <2>1. /\ SubSeq(a, k + 1, n) \in Seq(Sealed) /\ Len(SubSeq(a, k + 1, n)) = n - k
        /\ \A i \in 1..(n - k) : SubSeq(a, k + 1, n)[i] = a[k + i]
    BY <1>1, <1>2, Part
  <2> HIDE DEF rest
  <2>2. /\ SubSeq(rest, 1, n - k) \in Seq(Sealed) /\ Len(SubSeq(rest, 1, n - k)) = n - k
        /\ \A i \in 1..(n - k) : SubSeq(rest, 1, n - k)[i] = rest[i]
    BY <1>1, <1>4, Ancestor
  <2>3. ASSUME NEW i \in 1..(n - k) PROVE a[k + i] = rest[i]
    <3>1. k + i \in 1..n /\ i \in 1..(L - k)
      BY <1>1
    <3> QED BY <1>2, <1>4, <3>1
  <2> QED BY <2>1, <2>2, <2>3, SameSeq
<1>6. SubSeq(b, n + 1, L) = SubSeq(rest, (n - k) + 1, L - k)
  <2>1. /\ SubSeq(b, n + 1, L) \in Seq(Sealed) /\ Len(SubSeq(b, n + 1, L)) = L - n
        /\ \A i \in 1..(L - n) : SubSeq(b, n + 1, L)[i] = b[n + i]
    BY <1>1, Part
  <2> HIDE DEF rest
  <2>2. /\ SubSeq(rest, (n - k) + 1, L - k) \in Seq(Sealed)
        /\ Len(SubSeq(rest, (n - k) + 1, L - k)) = (L - k) - (n - k)
        /\ \A i \in 1..((L - k) - (n - k)) : SubSeq(rest, (n - k) + 1, L - k)[i] = rest[(n - k) + i]
    BY <1>1, <1>4, Part
  <2>3. (L - k) - (n - k) = L - n
    BY <1>1
  <2>4. ASSUME NEW i \in 1..(L - n) PROVE b[n + i] = rest[(n - k) + i]
    <3>1. (n - k) + i \in 1..(L - k) /\ k + ((n - k) + i) = n + i
      BY <1>1
    <3> QED BY <1>4, <3>1
  <2> QED BY <2>1, <2>2, <2>3, <2>4, SameSeq
<1>7. Replay(b, k) = ApplyAll(new, rest)
  BY DEF Replay
<1> HIDE DEF rest, new
<1>8. ApplyAll(new, rest) = ApplyAll(ApplyAll(new, SubSeq(rest, 1, n - k)), SubSeq(rest, (n - k) + 1, L - k))
  BY <1>1, <1>4, ApplyBoth
<1> QED BY <1>3, <1>5, <1>6, <1>7, <1>8 DEF a

-----------------------------------------------------------------------------
(* What snapshot returns and leaves behind                                 *)

\* Blocks are lists of headers.
Typed ==
  /\ chain \subseteq Seq(Sealed) /\ Genesis \in chain /\ head \in chain /\ base \in chain
  /\ batch \in Seq(Sealed)
  /\ work \in Seq(Sealed) /\ (work # Genesis => Front(work) \in chain)
  /\ \A e \in recents \cup disk : e.block \in Seq(Sealed)

\* A snapshot that is one of its block.
True(e) == \E n \in 0..Len(e.block) : Checkpoint(n) /\ e.snap = Replay(e.block, n)

\* The search ends, at genesis at the latest.
LEMMA SearchEnds ==
  ASSUME Typed, NEW b \in Seq(Sealed)
  PROVE  SearchFrom(b) \in 0..Len(b) /\ Found(b, SearchFrom(b))
<1> DEFINE T == {n \in 0..Len(b) : Found(b, n)}
<1>1. 0 \in T
  <2>1. Trusted(0, Len(b) - 0)
    BY DEF Trusted, Typed
  <2> QED BY <2>1 DEF Found
<1>2. Len(b) \in Nat /\ T \subseteq 0..Len(b) /\ T # {}
  BY <1>1
<1>3. SearchFrom(b) = Max(T)
  BY DEF SearchFrom
<1> HIDE DEF T
<1>4. Max(T) \in T
  BY <1>2, LatestNat
<1> QED BY <1>3, <1>4 DEF T

\* What the search finds: a snapshot kept for an ancestor, or a checkpoint of the
\* canonical chain.
LEMMA Starts ==
  ASSUME Typed, NEW b \in Seq(Sealed)
  PROVE  \/ Start(b) \in recents \cup disk /\ Start(b).block = SubSeq(b, 1, SearchFrom(b))
         \/ Start(b) = CheckpointEntry(SearchFrom(b)) /\ Trusted(SearchFrom(b), Len(b) - SearchFrom(b))
<1> DEFINE n == SearchFrom(b)
           here == SubSeq(b, 1, n)
           saved == IF Lookup(recents, here) # {} THEN Lookup(recents, here) ELSE OnDisk(here)
<1>1. Start(b) = IF saved # {} THEN CHOOSE e \in saved : TRUE ELSE CheckpointEntry(n)
  BY DEF Start
<1>2. \A e \in saved : e \in recents \cup disk /\ e.block = here
  BY DEF Lookup, OnDisk
<1>3. CASE saved # {}
  <2>1. Start(b) \in saved
    BY <1>1, <1>3
  <2> QED BY <1>2, <2>1
<1>4. CASE saved = {}
  <2>1. Found(b, n)
    BY SearchEnds
  <2>2. Lookup(recents, here) = {} /\ OnDisk(here) = {}
    BY <1>4
  <2>3. Trusted(n, Len(b) - n)
    BY <2>1, <2>2 DEF Found
  <2> QED BY <1>1, <1>4, <2>3
<1> QED BY <1>3, <1>4

\* A checkpoint of the canonical chain.
LEMMA CheckpointFacts ==
  ASSUME Typed, NEW n \in Nat, NEW piled, Trusted(n, piled)
  PROVE  /\ n \in 0..Len(head) /\ Checkpoint(n)
         /\ CheckpointEntry(n).block = SubSeq(head, 1, n)
         /\ CheckpointEntry(n).snap = Replay(SubSeq(head, 1, n), n)
<1>1. head \in Seq(Sealed)
  BY DEF Typed
<1>2. n \in 0..Len(head)
  BY <1>1 DEF Trusted
<1>3. Checkpoint(n)
  BY EpochAssumption DEF Trusted, Checkpoint
<1> DEFINE b == SubSeq(head, 1, n)
<1>4. b \in Seq(Sealed) /\ Len(b) = n /\ \A i \in 1..n : b[i] = head[i]
  BY <1>1, <1>2, Ancestor
<1>5. CheckpointEntry(n).block = b
  BY DEF CheckpointEntry
<1>6. CheckpointEntry(n).snap = NewSnapshot(n, IF n = 0 THEN GenesisSigners ELSE b[n].extra)
  <2>1. n # 0 => b[n] = head[n]
    BY <1>4
  <2> QED BY <2>1 DEF CheckpointEntry
<1> HIDE DEF b
<1>7. Replay(b, n) = ApplyAll(NewSnapshot(n, IF n = 0 THEN GenesisSigners ELSE b[n].extra), SubSeq(b, n + 1, n))
  BY <1>4 DEF Replay
<1>8. Len(SubSeq(b, n + 1, n)) = 0
  <2>1. n <= n /\ n <= Len(b) /\ n - n = 0
    BY <1>4
  <2> QED BY <1>4, <2>1, Part
<1>9. Replay(b, n) = CheckpointEntry(n).snap
  <2> DEFINE new == NewSnapshot(n, IF n = 0 THEN GenesisSigners ELSE b[n].extra)
  <2> HIDE DEF new
  <2>1. ApplyAll(new, SubSeq(b, n + 1, n)) = new
    BY <1>8, ApplyNone
  <2> QED BY <1>6, <1>7, <2>1 DEF new
<1> QED BY <1>2, <1>3, <1>5, <1>9 DEF b

\* The snapshot the search starts from is a replay of its block, and that block is an
\* ancestor of the one asked for.
LEMMA StartTrue ==
  ASSUME Typed, SnapshotsTrue, NEW b \in Seq(Sealed), OnMain(b)
  PROVE  /\ Start(b).block \in Seq(Sealed) /\ True(Start(b))
         /\ Start(b).block = SubSeq(b, 1, SearchFrom(b))
<1> DEFINE n == SearchFrom(b)
<1>1. n \in 0..Len(b) /\ n \in Nat
  BY SearchEnds
<1>2. CASE Start(b) \in recents \cup disk /\ Start(b).block = SubSeq(b, 1, n)
  BY <1>2 DEF Typed, SnapshotsTrue, True
<1>3. CASE Start(b) = CheckpointEntry(n) /\ Trusted(n, Len(b) - n)
  <2>1. head \in Seq(Sealed)
    BY DEF Typed
  <2>2. /\ n \in 0..Len(head) /\ Checkpoint(n)
        /\ CheckpointEntry(n).block = SubSeq(head, 1, n)
        /\ CheckpointEntry(n).snap = Replay(SubSeq(head, 1, n), n)
    BY <1>1, <1>3, CheckpointFacts
  <2>3. /\ SubSeq(head, 1, n) \in Seq(Sealed) /\ Len(SubSeq(head, 1, n)) = n
        /\ \A i \in 1..n : SubSeq(head, 1, n)[i] = head[i]
    BY <2>1, <2>2, Ancestor
  <2>4. /\ SubSeq(b, 1, n) \in Seq(Sealed) /\ Len(SubSeq(b, 1, n)) = n
        /\ \A i \in 1..n : SubSeq(b, 1, n)[i] = b[i]
    BY <1>1, Ancestor
  <2>5. ASSUME NEW i \in 1..n PROVE b[i] = head[i]
    <3>1. n # 0 /\ Len(b) - n > ImmutabilityThreshold /\ i \in 1..Len(head)
      BY <1>1, <1>3, <2>1, <2>2 DEF Trusted
    <3>2. i < Len(b) - ImmutabilityThreshold
      BY <1>1, <3>1, EngineAssumption
    <3> QED BY <3>1, <3>2 DEF OnMain
  <2>6. SubSeq(head, 1, n) = SubSeq(b, 1, n)
    BY <2>3, <2>4, <2>5, SameSeq
  <2>7. True(Start(b))
    <3>1. n \in 0..Len(Start(b).block)
      BY <1>1, <1>3, <2>2, <2>3
    <3> QED BY <1>3, <2>2, <3>1 DEF True
  <2> QED BY <1>3, <2>2, <2>3, <2>6, <2>7
<1> QED BY <1>2, <1>3, Starts

\* The result is a snapshot of the block, and filed under it.
LEMMA ResultTrue ==
  ASSUME Typed, SnapshotsTrue, NEW b \in Seq(Sealed), OnMain(b)
  PROVE  /\ True([block |-> b, snap |-> SnapshotOf(b)])
         /\ Filed(b) = b
<1> DEFINE n == SearchFrom(b)
           a == SubSeq(b, 1, n)
<1>1. n \in 0..Len(b) /\ n \in Nat /\ Len(b) \in Nat
  BY SearchEnds
<1>2. a \in Seq(Sealed) /\ Len(a) = n /\ \A i \in 1..n : a[i] = b[i]
  BY <1>1, Ancestor
<1>3. Start(b).block = a /\ True(Start(b))
  BY StartTrue
<1>4. PICK k \in 0..n : Checkpoint(k) /\ Start(b).snap = Replay(a, k)
  <2> HIDE DEF a
  <2> QED BY <1>2, <1>3 DEF True
<1>5. SnapshotOf(b) = Replay(b, k)
  BY <1>1, <1>4, ReplayOn DEF SnapshotOf, Gathered
<1>6. k \in 0..Len(b)
  BY <1>1, <1>4
<1>7. Filed(b) = b
  <2>1. CASE Gathered(b) # <<>>
    BY <2>1 DEF Filed
  <2>2. CASE Gathered(b) = <<>>
    <3>1. Len(Gathered(b)) = Len(b) - n
      BY <1>1, Part DEF Gathered
    <3>2. n = Len(b)
      BY <1>1, <2>2, <3>1
    <3>3. a = b
      <4> HIDE DEF a
      <4> QED BY <1>2, <3>2, SameSeq
    <3> QED BY <1>3, <2>2, <3>3 DEF Filed
  <2> QED BY <2>1, <2>2
<1> QED BY <1>4, <1>5, <1>6, <1>7 DEF True

\* snapshot adds the one it started from and its result to what is kept.
LEMMA Remembers ==
  ASSUME Typed, SnapshotsTrue, NEW b \in Seq(Sealed), OnMain(b), Remember(b, SnapshotOf(b))
  PROVE  \A e \in recents' \cup disk' :
           \/ e \in recents \cup disk \/ e = Start(b)
           \/ e = [block |-> b, snap |-> SnapshotOf(b)] /\ SnapshotOf(b) # NoSnapshot
<1> DEFINE new == [block |-> b, snap |-> SnapshotOf(b)]
<1>1. Filed(b) = b
  BY ResultTrue
<1>2. recents' = recents \/ (SnapshotOf(b) # NoSnapshot /\ recents' \in Cached(new))
  BY <1>1 DEF Remember
<1>3. disk' = Stored(b, SnapshotOf(b))
  BY DEF Remember
<1> HIDE DEF new
<1>4. ASSUME NEW S, S \in Cached(new) PROVE S \subseteq recents \cup {new}
  BY <1>4 DEF Cached, Put
<1>5. /\ disk' \subseteq disk \cup {Start(b), new}
      /\ SnapshotOf(b) = NoSnapshot => disk' \subseteq disk \cup {Start(b)}
  BY <1>3 DEF Stored, Put, new
<1> QED BY <1>2, <1>4, <1>5 DEF new

-----------------------------------------------------------------------------
(* What one header does to a snapshot                                      *)

\* Headers that do not vote for the zero address.
Proper(h) == h \in Sealed /\ (h.coinbase = ZeroAddress => h.nonce = "drop")

\* A snapshot of block n in which nobody votes about the zero address.
Sound(s, n) ==
  /\ s.number = n /\ s.signers \subseteq Address /\ ZeroAddress \notin s.signers
  /\ DOMAIN s.tally = Address /\ s.tally[ZeroAddress] = NoTally
  /\ \A v \in s.votes : v.address # ZeroAddress

\* Snapshots that differ in the recent signers only.
Same(s, t) ==
  /\ s.number = t.number /\ s.signers = t.signers /\ s.votes = t.votes /\ s.tally = t.tally
  /\ s.recents \subseteq t.recents

\* Votes about others leave a tally alone.
LEMMA NoneUncast ==
  ASSUME NEW tally, NEW gone, NEW a \in Address, \A v \in gone : v.address # a
  PROVE  Uncast(tally, gone)[a] = tally[a]
<1>1. {v \in gone : v.address = a /\ v.authorize = tally[a].authorize} = {}
  OBVIOUS
<1>2. Cardinality({v \in gone : v.address = a /\ v.authorize = tally[a].authorize}) = 0
  BY <1>1, FS_EmptySet
<1> QED BY <1>2 DEF Uncast

\* The zero address stays out of the votes.
LEMMA ApplySound ==
  ASSUME NEW s, NEW n \in Nat, Sound(s, n), NEW h, Proper(h)
  PROVE  Sound(Apply(s, h), n + 1)
<1> DEFINE z == ZeroAddress
<1>1. /\ h.coinbase \in Address /\ z \in Address /\ s.signers \subseteq Address /\ z \notin s.signers
      /\ DOMAIN s.tally = Address /\ s.tally[z] = NoTally /\ s.number = n
      /\ h.coinbase = z => h.nonce = "drop"
  BY AddressAssumption DEF Proper, Sealed, Sound
<1>2. \A v \in Pending(s) : v.address # z
  BY DEF Pending, Sound
<1>3. PendingTally(s)[z] = NoTally /\ DOMAIN PendingTally(s) = Address
  BY <1>1 DEF PendingTally
<1>4. \A v \in Ballot(s, h) : v.address # z
  BY <1>1 DEF Ballot, ValidVote
<1>5. h.coinbase = z => Ballot(s, h) = {}
  BY <1>1 DEF Ballot, ValidVote
<1>6. \A v \in Votes(s, h) : v.address # z
  BY <1>2, <1>4 DEF Votes
<1> DEFINE left == Uncast(PendingTally(s), Superseded(s, h))
<1>7. left[z] = NoTally /\ DOMAIN left = Address
  <2>1. \A v \in Superseded(s, h) : v.address # z
    BY <1>2 DEF Superseded
  <2>2. DOMAIN left = Address
    BY DEF Uncast
  <2> QED BY <1>1, <1>3, <2>1, <2>2, NoneUncast
<1> HIDE DEF left
<1>8. TallyOf(s, h)[z] = NoTally
  <2>1. TallyOf(s, h) = IF Ballot(s, h) # {} THEN Cast(left, h.coinbase, h.nonce) ELSE left
    BY DEF TallyOf, left
  <2>2. CASE Ballot(s, h) = {}
    BY <1>7, <2>1, <2>2
  <2>3. CASE Ballot(s, h) # {}
    BY <1>1, <1>5, <1>7, <2>1, <2>3 DEF Cast
  <2> QED BY <2>2, <2>3
<1>9. h.coinbase = z => ~Passed(s, h)
  <2>1. Cardinality(s.signers) \in Nat
    BY <1>1, AddressAssumption, FS_Subset, FS_CardinalityType
  <2>2. ~(0 > Cardinality(s.signers) \div 2)
    BY <2>1
  <2> QED BY <1>8, <2>2 DEF Passed, NoTally
<1>10. Signers(s, h) \subseteq Address /\ z \notin Signers(s, h)
  BY <1>1, <1>9 DEF Signers, Dropped
<1>11. Uncast(TallyOf(s, h), Orphaned(s, h))[z] = NoTally
  <2>1. \A v \in Orphaned(s, h) : v.address # z
    BY <1>6 DEF Orphaned
  <2> QED BY <1>1, <1>8, <2>1, NoneUncast
<1> QED BY <1>1, <1>6, <1>9, <1>10, <1>11 DEF Apply, Sound, Number

\* Votes and signers do not depend on who signed recently.
LEMMA ApplySame ==
  ASSUME NEW s, NEW t, Same(s, t), NEW h
  PROVE  Same(Apply(s, h), Apply(t, h))
<1>1. Number(s) = Number(t) /\ s.signers = t.signers /\ s.recents \subseteq t.recents
  BY DEF Same, Number
<1>2. Pending(s) = Pending(t) /\ PendingTally(s) = PendingTally(t)
  BY <1>1 DEF Same, Pending, PendingTally
<1>3. Superseded(s, h) = Superseded(t, h)
  BY <1>2 DEF Superseded
<1>4. Ballot(s, h) = Ballot(t, h)
  BY <1>1 DEF Ballot
<1>5. Votes(s, h) = Votes(t, h) /\ TallyOf(s, h) = TallyOf(t, h)
  BY <1>2, <1>3, <1>4 DEF Votes, TallyOf
<1>6. Passed(s, h) = Passed(t, h) /\ Dropped(s, h) = Dropped(t, h)
  BY <1>1, <1>5 DEF Passed, Dropped
<1>7. Signers(s, h) = Signers(t, h) /\ Orphaned(s, h) = Orphaned(t, h)
  BY <1>1, <1>5, <1>6 DEF Signers, Orphaned
<1>8. Recents(s) \subseteq Recents(t)
  BY <1>1 DEF Recents, Shift
<1>9. NewRecents(s, h) \subseteq NewRecents(t, h)
  BY <1>1, <1>6, <1>7, <1>8 DEF NewRecents, Shift
<1> QED BY <1>1, <1>5, <1>6, <1>7, <1>9 DEF Apply, Same

\* A checkpoint without a vote starts from its signers, with nothing pending.
LEMMA ApplyCheckpoint ==
  ASSUME NEW t, NEW n \in Nat, Sound(t, n), Checkpoint(n + 1),
         NEW h, Proper(h), h.coinbase = ZeroAddress, h.nonce = "drop"
  PROVE  Same(NewSnapshot(n + 1, t.signers), Apply(t, h))
<1>1. /\ Number(t) = n + 1 /\ h.coinbase \in Address
      /\ ZeroAddress \notin t.signers /\ t.signers \subseteq Address
  BY DEF Sound, Number, Proper, Sealed
<1>2. Pending(t) = {} /\ PendingTally(t) = [a \in Address |-> NoTally]
  BY <1>1 DEF Pending, PendingTally
<1>3. Superseded(t, h) = {} /\ Ballot(t, h) = {}
  BY <1>1, <1>2 DEF Superseded, Ballot, ValidVote
<1>4. Votes(t, h) = {} /\ Orphaned(t, h) = {}
  BY <1>2, <1>3 DEF Votes, Orphaned
<1>5. ASSUME NEW tally, NEW a \in Address PROVE Uncast(tally, {})[a] = tally[a]
  BY NoneUncast
<1>6. TallyOf(t, h) = [a \in Address |-> NoTally]
  <2>1. TallyOf(t, h) = Uncast([a \in Address |-> NoTally], {})
    BY <1>2, <1>3 DEF TallyOf
  <2> DEFINE none == [a \in Address |-> NoTally]
  <2>2. Uncast(none, {}) = [a \in Address |-> Uncast(none, {})[a]]
    BY DEF Uncast
  <2>3. \A a \in Address : Uncast(none, {})[a] = NoTally
    BY <1>5
  <2> QED BY <2>1, <2>2, <2>3
<1>7. ~Passed(t, h)
  <2>1. Cardinality(t.signers) \in Nat
    BY <1>1, AddressAssumption, FS_Subset, FS_CardinalityType
  <2>2. ~(0 > Cardinality(t.signers) \div 2)
    BY <2>1
  <2> QED BY <1>1, <1>6, <2>2 DEF Passed, NoTally
<1>8. Signers(t, h) = t.signers
  BY <1>7 DEF Signers, Dropped
<1>9. [a \in Address |-> IF Passed(t, h) /\ a = h.coinbase THEN NoTally
                         ELSE Uncast(TallyOf(t, h), Orphaned(t, h))[a]] = [a \in Address |-> NoTally]
  BY <1>4, <1>5, <1>6, <1>7
<1> QED BY <1>1, <1>4, <1>8, <1>9 DEF Apply, Same, NewSnapshot

-----------------------------------------------------------------------------
(* Replays, header by header                                               *)

\* The ancestor of a number, as a block.
Upto(b, n) == SubSeq(b, 1, n)

\* Ancestors of ancestors.
LEMMA UptoFacts ==
  \A b \in Seq(Sealed) : \A n \in 0..Len(b) :
    /\ Upto(b, n) \in Seq(Sealed) /\ Len(Upto(b, n)) = n
    /\ \A i \in 1..n : Upto(b, n)[i] = b[i]
    /\ \A i \in 0..n : Upto(Upto(b, n), i) = Upto(b, i)
<1> SUFFICES ASSUME NEW b \in Seq(Sealed), NEW n \in 0..Len(b)
             PROVE  /\ Upto(b, n) \in Seq(Sealed) /\ Len(Upto(b, n)) = n
                    /\ \A i \in 1..n : Upto(b, n)[i] = b[i]
                    /\ \A i \in 0..n : Upto(Upto(b, n), i) = Upto(b, i)
  OBVIOUS
<1>1. /\ Upto(b, n) \in Seq(Sealed) /\ Len(Upto(b, n)) = n
      /\ \A i \in 1..n : Upto(b, n)[i] = b[i]
  BY Ancestor DEF Upto
<1>2. ASSUME NEW i \in 0..n PROVE Upto(Upto(b, n), i) = Upto(b, i)
  <2>1. i \in 0..Len(b) /\ i \in 0..Len(Upto(b, n))
    BY <1>1
  <2>2. /\ Upto(b, i) \in Seq(Sealed) /\ Len(Upto(b, i)) = i
        /\ \A j \in 1..i : Upto(b, i)[j] = b[j]
    BY <2>1, Ancestor DEF Upto
  <2>3. /\ Upto(Upto(b, n), i) \in Seq(Sealed) /\ Len(Upto(Upto(b, n), i)) = i
        /\ \A j \in 1..i : Upto(Upto(b, n), i)[j] = Upto(b, n)[j]
    <3> DEFINE a == Upto(b, n)
    <3> HIDE DEF a
    <3>1. /\ SubSeq(a, 1, i) \in Seq(Sealed) /\ Len(SubSeq(a, 1, i)) = i
          /\ \A j \in 1..i : SubSeq(a, 1, i)[j] = a[j]
      BY <1>1, <2>1, Ancestor DEF a
    <3> QED BY <3>1 DEF a, Upto
  <2>4. \A j \in 1..i : Upto(b, n)[j] = b[j]
    BY <1>1
  <2> QED BY <2>2, <2>3, <2>4, SameSeq
<1> QED BY <1>1, <1>2

\* A block is its own ancestor of its own number.
LEMMA UptoAll ==
  ASSUME NEW b \in Seq(Sealed)
  PROVE  Upto(b, Len(b)) = b
<1>1. Len(b) \in 0..Len(b)
  OBVIOUS
<1>2. /\ Upto(b, Len(b)) \in Seq(Sealed) /\ Len(Upto(b, Len(b))) = Len(b)
      /\ \A i \in 1..Len(b) : Upto(b, Len(b))[i] = b[i]
  BY <1>1, UptoFacts
<1> QED BY <1>2, SameSeq

\* A replay starts with the signers of the checkpoint.
LEMMA ReplayStarts ==
  ASSUME NEW b \in Seq(Sealed), NEW k \in 0..Len(b)
  PROVE  Replay(Upto(b, k), k) = NewSnapshot(k, IF k = 0 THEN GenesisSigners ELSE b[k].extra)
<1> DEFINE a == Upto(b, k)
           new == NewSnapshot(k, IF k = 0 THEN GenesisSigners ELSE b[k].extra)
<1>1. a \in Seq(Sealed) /\ Len(a) = k /\ \A i \in 1..k : a[i] = b[i]
  BY UptoFacts
<1>2. Replay(a, k) = ApplyAll(new, SubSeq(a, k + 1, k))
  <2>1. k # 0 => a[k] = b[k]
    BY <1>1
  <2> QED BY <1>1, <2>1 DEF Replay
<1> HIDE DEF a, new
<1>3. Len(SubSeq(a, k + 1, k)) = 0
  <2>1. k \in Nat /\ k <= k /\ k <= Len(a) /\ k - k = 0
    BY <1>1
  <2> QED BY <1>1, <2>1, Part
<1>4. ApplyAll(new, SubSeq(a, k + 1, k)) = new
  BY <1>3, ApplyNone
<1> QED BY <1>2, <1>4 DEF a, new

\* It goes on by one header at a time.
LEMMA ReplayStep ==
  ASSUME NEW b \in Seq(Sealed), NEW k \in Nat, NEW n \in 1..Len(b), k < n
  PROVE  Replay(Upto(b, n), k) = After(Replay(Upto(b, n - 1), k), b[n])
<1> DEFINE a == Upto(b, n)
           m == n - 1
           r == Replay(Upto(b, m), k)
           one == SubSeq(a, m + 1, n)
<1>1. n \in 0..Len(b) /\ m \in 0..Len(b) /\ m \in 0..n /\ k \in 0..m /\ m \in Nat /\ n \in Nat
      /\ m <= n /\ n - m = 1 /\ m + 1 = n
  OBVIOUS
<1> HIDE DEF m
<1>2. /\ a \in Seq(Sealed) /\ Len(a) = n /\ Upto(a, m) = Upto(b, m)
      /\ \A i \in 1..n : a[i] = b[i]
  BY <1>1, UptoFacts
<1> HIDE DEF a
<1>3. Replay(a, k) = ApplyAll(Replay(SubSeq(a, 1, m), k), SubSeq(a, m + 1, Len(a)))
  BY <1>1, <1>2, ReplayOn
<1>4. Replay(a, k) = ApplyAll(r, one)
  BY <1>2, <1>3 DEF Upto
<1>5. one \in Seq(Sealed) /\ Len(one) = 1 /\ one[1] = b[n]
  <2>1. /\ one \in Seq(Sealed) /\ Len(one) = n - m
        /\ \A i \in 1..(n - m) : one[i] = a[m + i]
    BY <1>1, <1>2, Part
  <2>2. one[1] = a[m + 1] /\ m + 1 = n
    BY <1>1, <2>1
  <2>3. n \in 1..n
    BY <1>1
  <2> QED BY <1>1, <1>2, <2>1, <2>2, <2>3
<1> HIDE DEF one, r
<1>6. ApplyAll(r, one) = After(ApplyAll(r, SubSeq(one, 1, Len(one) - 1)), one[Len(one)])
  <2>1. Len(one) # 0
    BY <1>5
  <2> QED BY <1>5, <2>1, ApplyOne
<1>7. Len(SubSeq(one, 1, Len(one) - 1)) = 0
  <2>1. 0 \in 0..Len(one) /\ Len(one) - 1 = 0
    BY <1>5
  <2> QED BY <1>5, <2>1, Ancestor
<1>8. ApplyAll(r, SubSeq(one, 1, Len(one) - 1)) = r
  BY <1>7, ApplyNone
<1> QED BY <1>4, <1>5, <1>6, <1>8 DEF a, r, m

\* Blocks whose headers are proper and whose checkpoints list the signers of a
\* replay from genesis.
ListedAt(b, k) ==
  /\ Proper(b[k])
  /\ Checkpoint(k) =>
       /\ b[k].coinbase = ZeroAddress /\ b[k].nonce = "drop"
       /\ LET t == Truth(Upto(b, k - 1)) IN t # NoSnapshot => b[k].extra = t.signers

Listed(b) == b \in Seq(Sealed) /\ \A k \in 1..Len(b) : ListedAt(b, k)

\* The number of a replayed snapshot is that of its block.
LEMMA ReplayNumber ==
  ASSUME NEW b \in Seq(Sealed), NEW k \in 0..Len(b), Replay(b, k) # NoSnapshot
  PROVE  Replay(b, k).number = Len(b)
<1> DEFINE Bad(n) == Replay(Upto(b, n), k) # NoSnapshot /\ Replay(Upto(b, n), k).number # n
           T == {n \in Nat : n \in k..Len(b) /\ Bad(n)}
<1>1. T = {}
  <2> SUFFICES ASSUME T # {} PROVE FALSE
    OBVIOUS
  <2>1. PICK n \in T : \A m \in T : n <= m
    BY LeastNat
  <2>2. n \in Nat /\ n \in k..Len(b) /\ Bad(n)
    BY <2>1
  <2>3. CASE n = k
    <3>1. Replay(Upto(b, k), k) = NewSnapshot(k, IF k = 0 THEN GenesisSigners ELSE b[k].extra)
      BY ReplayStarts
    <3> QED BY <2>2, <2>3, <3>1 DEF NewSnapshot
  <2>4. CASE n # k
    <3>1. n \in 1..Len(b) /\ k < n /\ k \in Nat /\ n - 1 \in Nat /\ n - 1 \in k..Len(b) /\ ~(n <= n - 1)
      BY <2>2, <2>4
    <3>2. ~Bad(n - 1)
      BY <2>1, <3>1
    <3> DEFINE s == Replay(Upto(b, n - 1), k)
    <3>3. Replay(Upto(b, n), k) = After(s, b[n])
      BY <3>1, ReplayStep
    <3>4. s # NoSnapshot /\ Replay(Upto(b, n), k) = Apply(s, b[n])
      BY <2>2, <3>3 DEF After
    <3>5. s.number = n - 1
      BY <3>2, <3>4
    <3>6. Replay(Upto(b, n), k).number = n
      BY <3>1, <3>4, <3>5 DEF Apply, Number
    <3> QED BY <2>2, <3>6
  <2> QED BY <2>3, <2>4
<1>2. Len(b) \in Nat /\ Len(b) \in k..Len(b) /\ Upto(b, Len(b)) = b
  BY UptoAll
<1> QED BY <1>1, <1>2

\* Signers are accounts, in a replay from any checkpoint.
LEMMA ReplaySigners ==
  ASSUME NEW b \in Seq(Sealed), NEW k \in 0..Len(b), Replay(b, k) # NoSnapshot
  PROVE  Replay(b, k).signers \subseteq Address
<1> DEFINE Bad(n) == Replay(Upto(b, n), k) # NoSnapshot /\ ~(Replay(Upto(b, n), k).signers \subseteq Address)
           T == {n \in Nat : n \in k..Len(b) /\ Bad(n)}
<1>1. T = {}
  <2> SUFFICES ASSUME T # {} PROVE FALSE
    OBVIOUS
  <2>1. PICK n \in T : \A m \in T : n <= m
    BY LeastNat
  <2>2. n \in Nat /\ n \in k..Len(b) /\ Bad(n)
    BY <2>1
  <2>3. CASE n = k
    <3>1. Replay(Upto(b, k), k) = NewSnapshot(k, IF k = 0 THEN GenesisSigners ELSE b[k].extra)
      BY ReplayStarts
    <3>2. k # 0 => b[k].extra \subseteq Address
      <4>1. k # 0 => b[k] \in Sealed
        OBVIOUS
      <4> QED BY <4>1 DEF Sealed
    <3> QED BY <2>2, <2>3, <3>1, <3>2, GenesisAssumption DEF NewSnapshot
  <2>4. CASE n # k
    <3>1. n \in 1..Len(b) /\ k < n /\ k \in Nat /\ n - 1 \in Nat /\ n - 1 \in k..Len(b) /\ ~(n <= n - 1)
      BY <2>2, <2>4
    <3>2. ~Bad(n - 1)
      BY <2>1, <3>1
    <3> DEFINE s == Replay(Upto(b, n - 1), k)
    <3>3. Replay(Upto(b, n), k) = After(s, b[n])
      BY <3>1, ReplayStep
    <3>4. s # NoSnapshot /\ Replay(Upto(b, n), k) = Apply(s, b[n])
      BY <2>2, <3>3 DEF After
    <3>5. s.signers \subseteq Address
      BY <3>2, <3>4
    <3>6. b[n].coinbase \in Address
      <4>1. b[n] \in Sealed
        BY <3>1
      <4> QED BY <4>1 DEF Sealed
    <3> HIDE DEF s
    <3>7. Apply(s, b[n]).signers \subseteq Address
      BY <3>5, <3>6 DEF Apply, Signers
    <3> QED BY <2>2, <3>4, <3>7
  <2> QED BY <2>3, <2>4
<1>2. Len(b) \in Nat /\ Len(b) \in k..Len(b) /\ Upto(b, Len(b)) = b
  BY UptoAll
<1> QED BY <1>1, <1>2

\* Nobody votes about the zero address in a replay from genesis.
LEMMA TruthSound ==
  ASSUME NEW b, Listed(b), NEW l \in 0..Len(b), Truth(Upto(b, l)) # NoSnapshot
  PROVE  Sound(Truth(Upto(b, l)), l)
<1> DEFINE Bad(n) == Truth(Upto(b, n)) # NoSnapshot /\ ~Sound(Truth(Upto(b, n)), n)
           T == {n \in Nat : n \in 0..Len(b) /\ Bad(n)}
<1>0. b \in Seq(Sealed) /\ Len(b) \in Nat
  BY DEF Listed
<1>1. T = {}
  <2> SUFFICES ASSUME T # {} PROVE FALSE
    OBVIOUS
  <2>1. PICK n \in T : \A m \in T : n <= m
    BY LeastNat
  <2>2. n \in Nat /\ n \in 0..Len(b) /\ Bad(n)
    BY <2>1
  <2>3. CASE n = 0
    <3>1. 0 \in 0..Len(b)
      BY <1>0
    <3>2. Truth(Upto(b, 0)) = NewSnapshot(0, GenesisSigners)
      BY <1>0, <3>1, ReplayStarts DEF Truth
    <3>3. Sound(NewSnapshot(0, GenesisSigners), 0)
      BY GenesisAssumption, ZeroAssumption, AddressAssumption DEF Sound, NewSnapshot
    <3> QED BY <2>2, <2>3, <3>2, <3>3
  <2>4. CASE n # 0
    <3>1. n \in 1..Len(b) /\ 0 < n /\ 0 \in Nat /\ n - 1 \in Nat /\ n - 1 \in 0..Len(b) /\ ~(n <= n - 1)
      BY <1>0, <2>2, <2>4
    <3>2. ~Bad(n - 1)
      BY <2>1, <3>1
    <3> DEFINE s == Truth(Upto(b, n - 1))
    <3>3. Truth(Upto(b, n)) = After(s, b[n])
      BY <1>0, <3>1, ReplayStep DEF Truth
    <3>4. s # NoSnapshot /\ Truth(Upto(b, n)) = Apply(s, b[n])
      BY <2>2, <3>3 DEF After
    <3>5. Sound(s, n - 1)
      BY <3>2, <3>4
    <3>6. Proper(b[n])
      BY <3>1 DEF Listed, ListedAt
    <3> HIDE DEF s
    <3>7. Sound(Apply(s, b[n]), (n - 1) + 1) /\ (n - 1) + 1 = n
      BY <3>1, <3>5, <3>6, ApplySound
    <3> QED BY <2>2, <3>4, <3>7
  <2> QED BY <2>3, <2>4
<1>2. l \in Nat
  BY <1>0
<1> QED BY <1>1, <1>2

\* Replays from a checkpoint and from genesis agree.
LEMMA ReplaysSame ==
  ASSUME NEW b, Listed(b), NEW k \in 0..Len(b), Checkpoint(k),
         Replay(b, k) # NoSnapshot, Truth(b) # NoSnapshot
  PROVE  Same(Replay(b, k), Truth(b))
<1> DEFINE Bad(n) == /\ Replay(Upto(b, n), k) # NoSnapshot /\ Truth(Upto(b, n)) # NoSnapshot
                     /\ ~Same(Replay(Upto(b, n), k), Truth(Upto(b, n)))
           T == {n \in Nat : n \in k..Len(b) /\ Bad(n)}
<1>0. b \in Seq(Sealed) /\ Len(b) \in Nat /\ k \in Nat
  BY DEF Listed
<1>1. T = {}
  <2> SUFFICES ASSUME T # {} PROVE FALSE
    OBVIOUS
  <2>1. PICK n \in T : \A m \in T : n <= m
    BY LeastNat
  <2>2. n \in Nat /\ n \in k..Len(b) /\ Bad(n)
    BY <2>1
  <2>3. CASE n = k /\ k = 0
    BY <2>2, <2>3 DEF Truth, Same
  <2>4. CASE n = k /\ k # 0
    <3>1. k \in 1..Len(b) /\ 0 < k /\ 0 \in Nat /\ k - 1 \in Nat /\ k - 1 \in 0..Len(b) /\ (k - 1) + 1 = k
      BY <1>0, <2>4
    <3> DEFINE t == Truth(Upto(b, k - 1))
    <3>2. Truth(Upto(b, k)) = After(t, b[k])
      BY <1>0, <3>1, ReplayStep DEF Truth
    <3>3. t # NoSnapshot /\ Truth(Upto(b, k)) = Apply(t, b[k])
      BY <2>2, <2>4, <3>2 DEF After
    <3>4. Sound(t, k - 1)
      BY <3>1, <3>3, TruthSound
    <3>5. Proper(b[k]) /\ b[k].coinbase = ZeroAddress /\ b[k].nonce = "drop" /\ b[k].extra = t.signers
      BY <3>1, <3>3 DEF Listed, ListedAt
    <3>6. Replay(Upto(b, k), k) = NewSnapshot(k, t.signers)
      BY <1>0, <2>4, <3>5, ReplayStarts
    <3> HIDE DEF t
    <3>7. Same(NewSnapshot((k - 1) + 1, t.signers), Apply(t, b[k]))
      BY <3>1, <3>4, <3>5, ApplyCheckpoint
    <3> QED BY <2>2, <2>4, <3>1, <3>3, <3>6, <3>7
  <2>5. CASE n # k
    <3>1. /\ n \in 1..Len(b) /\ 0 < n /\ 0 \in Nat /\ k < n
          /\ n - 1 \in Nat /\ n - 1 \in k..Len(b) /\ ~(n <= n - 1)
      BY <1>0, <2>2, <2>5
    <3>2. ~Bad(n - 1)
      BY <2>1, <3>1
    <3> DEFINE s == Replay(Upto(b, n - 1), k)
               t == Truth(Upto(b, n - 1))
    <3>3. Replay(Upto(b, n), k) = After(s, b[n])
      BY <1>0, <3>1, ReplayStep
    <3>4. Truth(Upto(b, n)) = After(t, b[n])
      BY <1>0, <3>1, ReplayStep DEF Truth
    <3>5. /\ s # NoSnapshot /\ Replay(Upto(b, n), k) = Apply(s, b[n])
          /\ t # NoSnapshot /\ Truth(Upto(b, n)) = Apply(t, b[n])
      BY <2>2, <3>3, <3>4 DEF After
    <3>6. Same(s, t)
      BY <3>2, <3>5
    <3> HIDE DEF s, t
    <3>7. Same(Apply(s, b[n]), Apply(t, b[n]))
      BY <3>6, ApplySame
    <3> QED BY <2>2, <3>5, <3>7
  <2> QED BY <2>3, <2>4, <2>5
<1>2. Len(b) \in k..Len(b) /\ Upto(b, Len(b)) = b
  BY <1>0, UptoAll
<1> QED BY <1>0, <1>1, <1>2

-----------------------------------------------------------------------------
(* The inductive invariant                                                 *)

\* Blocks known to the node, inserted or not.
Known == chain \cup {base \o batch, work} \cup {e.block : e \in recents \cup disk}

\* The operator proposes votes that headers may carry.
ProposalsOK ==
  /\ proposals \in [Address -> Nonce \cup {"none"}]
  /\ \A a \in Address : proposals[a] # "none" => <<a, proposals[a]>> \in Ballots

CInv ==
  /\ Typed
  /\ SnapshotsTrue
  /\ \A b \in Known : Listed(b)
  /\ \A e \in recents \cup disk : e.snap # NoSnapshot
  /\ ProposalsOK

\* Ancestors of listed blocks are listed.
LEMMA ListedUpto ==
  ASSUME NEW b, Listed(b), NEW n \in 0..Len(b)
  PROVE  Listed(Upto(b, n))
<1> DEFINE a == Upto(b, n)
<1>1. b \in Seq(Sealed)
  BY DEF Listed
<1>2. /\ a \in Seq(Sealed) /\ Len(a) = n /\ \A i \in 1..n : a[i] = b[i]
      /\ \A i \in 0..n : Upto(a, i) = Upto(b, i)
  BY <1>1, UptoFacts
<1> HIDE DEF a
<1>3. ASSUME NEW k \in 1..n PROVE ListedAt(a, k)
  <2>1. k \in 1..Len(b) /\ k - 1 \in 0..n
    BY <1>1
  <2>2. a[k] = b[k] /\ Upto(a, k - 1) = Upto(b, k - 1)
    BY <1>2, <2>1
  <2>3. ListedAt(b, k)
    BY <2>1 DEF Listed
  <2> QED BY <2>2, <2>3 DEF ListedAt
<1>4. Listed(a)
  BY <1>2, <1>3 DEF Listed
<1> QED BY <1>4 DEF a

\* A header made or verified with a snapshot of its parent.
LEMMA ListedAppend ==
  ASSUME NEW b, Listed(b), NEW s, s # NoSnapshot, True([block |-> b, snap |-> s]),
         NEW h, Proper(h),
         Checkpoint(Number(s)) => h.coinbase = ZeroAddress /\ h.nonce = "drop" /\ h.extra = s.signers
  PROVE  Listed(Append(b, h))
<1> DEFINE L == Len(b)
           c == Append(b, h)
<1>1. b \in Seq(Sealed) /\ L \in Nat /\ h \in Sealed
  BY DEF Listed, Proper
<1>2. c \in Seq(Sealed) /\ Len(c) = L + 1 /\ c[L + 1] = h /\ \A i \in 1..L : c[i] = b[i]
  BY <1>1
<1>3. PICK k \in 0..L : Checkpoint(k) /\ s = Replay(b, k)
  BY DEF True
<1>4. Number(s) = L + 1
  BY <1>1, <1>3, ReplayNumber DEF Number
<1>5. Truth(b) # NoSnapshot => s.signers = Truth(b).signers
  BY <1>3, ReplaysSame DEF Same
<1> HIDE DEF c
<1>6. Upto(c, L) = b
  <2>1. L \in 0..Len(c)
    BY <1>1, <1>2
  <2>2. Upto(c, L) \in Seq(Sealed) /\ Len(Upto(c, L)) = L /\ \A i \in 1..L : Upto(c, L)[i] = c[i]
    BY <1>2, <2>1, UptoFacts
  <2> QED BY <1>1, <1>2, <2>2, SameSeq
<1>7. ASSUME NEW i \in 1..L PROVE ListedAt(c, i)
  <2>1. i - 1 \in 0..L /\ L \in 0..Len(c)
    BY <1>1, <1>2
  <2>2. Upto(Upto(c, L), i - 1) = Upto(c, i - 1)
    BY <1>2, <2>1, UptoFacts
  <2>3. c[i] = b[i] /\ Upto(c, i - 1) = Upto(b, i - 1)
    BY <1>2, <1>6, <2>2
  <2>4. ListedAt(b, i)
    BY DEF Listed
  <2> QED BY <2>3, <2>4 DEF ListedAt
<1>8. ListedAt(c, L + 1)
  <2>1. (L + 1) - 1 = L
    BY <1>1
  <2>2. c[L + 1] = h /\ Upto(c, (L + 1) - 1) = b
    BY <1>2, <1>6, <2>1
  <2> QED BY <1>4, <1>5, <2>2 DEF ListedAt
<1>9. \A i \in 1..Len(c) : ListedAt(c, i)
  <2>1. \A i \in 1..Len(c) : i \in 1..L \/ i = L + 1
    BY <1>1, <1>2
  <2> QED BY <1>7, <1>8, <2>1
<1> QED BY <1>2, <1>9 DEF Listed, c

\* What is kept after a call of snapshot.
LEMMA EntriesKept ==
  ASSUME CInv, NEW b, Listed(b), OnMain(b), Remember(b, SnapshotOf(b))
  PROVE  \A e \in recents' \cup disk' : True(e) /\ Listed(e.block) /\ e.snap # NoSnapshot
<1>1. Typed /\ SnapshotsTrue /\ b \in Seq(Sealed)
  BY DEF CInv, Listed
<1>2. ASSUME NEW e \in recents \cup disk PROVE True(e) /\ Listed(e.block) /\ e.snap # NoSnapshot
  BY DEF CInv, SnapshotsTrue, True, Known
<1> DEFINE n == SearchFrom(b)
<1>3. True(Start(b)) /\ Listed(Start(b).block)
  <2>1. True(Start(b)) /\ Start(b).block = Upto(b, n)
    BY <1>1, StartTrue DEF Upto
  <2>2. n \in 0..Len(b)
    BY <1>1, SearchEnds
  <2> QED BY <2>1, <2>2, ListedUpto
<1>4. Start(b).snap # NoSnapshot
  <2>1. CASE Start(b) \in recents \cup disk
    BY <1>2, <2>1
  <2>2. CASE Start(b) = CheckpointEntry(n) /\ Trusted(n, Len(b) - n)
    <3>1. n \in Nat /\ n \in 0..Len(head) /\ head \in Seq(Sealed)
      BY <1>1, <2>2, SearchEnds, CheckpointFacts DEF Typed
    <3>2. n # 0 => head[n] \in Sealed
      BY <3>1
    <3>3. (IF n = 0 THEN GenesisSigners ELSE head[n].extra) \subseteq Address
      BY <3>2, GenesisAssumption DEF Sealed
    <3>4. ASSUME NEW S \in SUBSET Address PROVE NewSnapshot(n, S) \in Snapshot
      BY <3>1 DEF NewSnapshot, Snapshot, Tally
    <3>5. Start(b).snap \in Snapshot
      BY <2>2, <3>3, <3>4 DEF CheckpointEntry
    <3> QED BY <3>5, EngineAssumption
  <2> QED BY <1>1, <2>1, <2>2, Starts
<1>5. True([block |-> b, snap |-> SnapshotOf(b)])
  BY <1>1, ResultTrue
<1> QED BY <1>1, <1>2, <1>3, <1>4, <1>5, Remembers

\* The parts of the invariant after a step.
LEMMA Combine ==
  ASSUME Genesis \in chain', head' \in chain', base' \in chain', batch' \in Seq(Sealed),
         work' # Genesis => Front(work') \in chain',
         \A b \in chain' : Listed(b), Listed(base' \o batch'), Listed(work'),
         \A e \in recents' \cup disk' : True(e) /\ Listed(e.block) /\ e.snap # NoSnapshot,
         ProposalsOK'
  PROVE  CInv'
<1>1. \A b : Listed(b) => b \in Seq(Sealed)
  BY DEF Listed
<1>2. Typed'
  BY <1>1 DEF Typed
<1>3. SnapshotsTrue'
  BY DEF SnapshotsTrue, True
<1>4. \A b \in Known' : Listed(b)
  BY DEF Known
<1> QED BY <1>2, <1>3, <1>4 DEF CInv

\* Genesis.
LEMMA ListedGenesis == Listed(Genesis) /\ Listed(Genesis \o <<>>) /\ <<>> \in Seq(Sealed) /\ Genesis = <<>>
BY DEF Listed, Genesis

\* Facts about the state before a step.
LEMMA Before ==
  ASSUME CInv
  PROVE  /\ Genesis \in chain /\ head \in chain /\ base \in chain /\ batch \in Seq(Sealed)
         /\ chain \subseteq Seq(Sealed) /\ work \in Seq(Sealed)
         /\ work # Genesis => Front(work) \in chain
         /\ \A b \in chain : Listed(b)
         /\ Listed(base \o batch) /\ Listed(work)
         /\ \A e \in recents \cup disk : True(e) /\ Listed(e.block) /\ e.snap # NoSnapshot
         /\ Typed /\ SnapshotsTrue /\ ProposalsOK
BY DEF CInv, Typed, Known, SnapshotsTrue, True

\* VerifyHeaders: one more header of a batch.
LEMMA VerifyKeeps ==
  ASSUME CInv, NEW block \in chain, VerifyNext(block)
  PROVE  CInv'
<1> DEFINE b == block \o batch
<1>1. PICK s \in {SnapshotOf(b)} \ {NoSnapshot} : 
        /\ Remember(b, s)
        /\ \E h \in Headers : Verified(s, h) /\ batch' = Append(batch, h)
  BY DEF VerifyNext
<1>2. PICK h \in Headers : Verified(s, h) /\ batch' = Append(batch, h)
  BY <1>1
<1>3. /\ batch # <<>> => block = base
      /\ OnMain(b) /\ base' = block
      /\ UNCHANGED <<chain, head, proposals, work>>
  BY DEF VerifyNext
<1>4. block \in Seq(Sealed) /\ batch \in Seq(Sealed) /\ b \in Seq(Sealed)
  BY Before
<1>5. Listed(b)
  <2>1. CASE batch = <<>>
    <3>1. b = block
      BY <1>4, <2>1
    <3> QED BY <3>1, Before
  <2>2. CASE batch # <<>>
    BY <1>3, <2>2, Before
  <2> QED BY <2>1, <2>2
<1>6. PICK sg \in Address, v \in Ballots, x \in SUBSET Address :
        h = [signer |-> sg, coinbase |-> v[1], nonce |-> v[2], extra |-> x]
  BY DEF Headers
<1>7. Proper(h)
  <2>1. v \in Address \X Nonce
    BY EngineAssumption
  <2>2. v = <<v[1], v[2]>> /\ v[1] \in Address /\ v[2] \in Nonce
    BY <2>1
  <2>3. v[1] = ZeroAddress => v[2] = "drop"
    BY <2>2, ZeroAssumption DEF Nonce
  <2> QED BY <1>6, <2>2, <2>3 DEF Proper, Sealed
<1>8. Checkpoint(Number(s)) => h.coinbase = ZeroAddress /\ h.nonce = "drop" /\ h.extra = s.signers
  BY <1>2 DEF Verified, VerifyHeader, Extra
<1> HIDE DEF b
<1>9. s = SnapshotOf(b) /\ s # NoSnapshot /\ True([block |-> b, snap |-> s])
  BY <1>1, <1>3, <1>4, Before, ResultTrue
<1>10. Listed(Append(b, h))
  BY <1>5, <1>7, <1>8, <1>9, ListedAppend
<1>11. base' \o batch' = Append(b, h) /\ batch' \in Seq(Sealed)
  <2>1. h \in Sealed
    BY <1>7 DEF Proper
  <2>2. block \o Append(batch, h) = Append(block \o batch, h)
    BY <1>4, <2>1
  <2> QED BY <1>2, <1>3, <1>4, <2>1, <2>2 DEF b
<1>12. \A e \in recents' \cup disk' : True(e) /\ Listed(e.block) /\ e.snap # NoSnapshot
  BY <1>1, <1>3, <1>5, <1>9, EntriesKept
<1>13. ProposalsOK'
  BY <1>3, Before DEF ProposalsOK
<1> QED BY <1>3, <1>10, <1>11, <1>12, <1>13, Before, Combine

\* The blockchain inserts a batch: ancestors of its last block.
LEMMA InsertKeeps ==
  ASSUME CInv, Insert
  PROVE  CInv'
<1>1. /\ chain' = chain \cup {base \o SubSeq(batch, 1, n) : n \in 1..Len(batch)}
      /\ head' \in {head, base \o batch}
      /\ batch # <<>> /\ batch' = <<>> /\ base' = Genesis
      /\ UNCHANGED <<recents, disk, proposals, work>>
  BY DEF Insert, Tip
<1>2. base \in Seq(Sealed) /\ batch \in Seq(Sealed) /\ base \o batch \in Seq(Sealed)
  BY Before
<1>3. ASSUME NEW n \in 1..Len(batch) PROVE Listed(base \o SubSeq(batch, 1, n))
  <2> DEFINE c == base \o batch
             a == SubSeq(batch, 1, n)
             m == Len(base) + n
  <2>1. /\ Len(c) = Len(base) + Len(batch) /\ Len(base) \in Nat /\ Len(batch) \in Nat
        /\ \A i \in 1..Len(c) : c[i] = IF i <= Len(base) THEN base[i] ELSE batch[i - Len(base)]
    BY <1>2
  <2>2. a \in Seq(Sealed) /\ Len(a) = n /\ \A i \in 1..n : a[i] = batch[i]
    <3>1. n \in 0..Len(batch)
      OBVIOUS
    <3> QED BY <1>2, <3>1, Ancestor
  <2> HIDE DEF c, a
  <2>3. /\ base \o a \in Seq(Sealed) /\ Len(base \o a) = m
        /\ \A i \in 1..m : (base \o a)[i] = IF i <= Len(base) THEN base[i] ELSE a[i - Len(base)]
    BY <1>2, <2>2
  <2>4. m \in 0..Len(c)
    BY <2>1
  <2>5. /\ Upto(c, m) \in Seq(Sealed) /\ Len(Upto(c, m)) = m
        /\ \A i \in 1..m : Upto(c, m)[i] = c[i]
    BY <1>2, <2>4, UptoFacts DEF c
  <2>6. ASSUME NEW i \in 1..m PROVE (base \o a)[i] = c[i]
    <3>1. i \in 1..Len(c) /\ (~(i <= Len(base)) => i - Len(base) \in 1..n)
      BY <2>1
    <3> QED BY <2>1, <2>2, <2>3, <3>1
  <2>7. base \o a = Upto(c, m)
    BY <2>3, <2>5, <2>6, SameSeq
  <2>8. Listed(Upto(c, m))
    BY <2>4, Before, ListedUpto DEF c
  <2> QED BY <2>7, <2>8 DEF a
<1>4. base \o batch \in chain'
  <2>1. Len(batch) \in 1..Len(batch) /\ SubSeq(batch, 1, Len(batch)) = batch
    BY <1>1, <1>2, UptoAll DEF Upto
  <2> QED BY <1>1, <2>1
<1>5. Genesis \in chain' /\ head' \in chain' /\ base' \in chain' /\ batch' \in Seq(Sealed)
  <2>1. chain \subseteq chain' /\ Genesis \in chain /\ head \in chain
    BY <1>1, Before
  <2>2. head' = head \/ head' = base \o batch
    BY <1>1
  <2> QED BY <1>1, <1>4, <2>1, <2>2, ListedGenesis
<1>6. \A b \in chain' : Listed(b)
  BY <1>1, <1>3, Before
<1>7. Listed(base' \o batch')
  BY <1>1, ListedGenesis
<1>8. work' # Genesis => Front(work') \in chain'
  BY <1>1, Before
<1>9. ProposalsOK'
  BY <1>1, Before DEF ProposalsOK
<1> QED BY <1>1, <1>5, <1>6, <1>7, <1>8, <1>9, Before, Combine

\* A batch is given up, or memory is lost.
LEMMA AbortKeeps ==
  ASSUME CInv, Abort \/ Restart
  PROVE  CInv'
<1>1. /\ chain' = chain /\ head' = head /\ base' = Genesis /\ batch' = <<>>
      /\ recents' \cup disk' \subseteq recents \cup disk
      /\ work' = work \/ work' = Genesis
      /\ proposals' = proposals \/ proposals' = [a \in Address |-> "none"]
  BY DEF Abort, Restart
<1>2. Listed(base' \o batch') /\ batch' \in Seq(Sealed)
  BY <1>1, ListedGenesis
<1>3. ProposalsOK'
  BY <1>1, Before DEF ProposalsOK
<1>4. Listed(work') /\ (work' # Genesis => Front(work') \in chain')
  BY <1>1, Before, ListedGenesis
<1> QED BY <1>1, <1>2, <1>3, <1>4, Before, Combine

\* Any other call of snapshot.
LEMMA QueryKeeps ==
  ASSUME CInv, NEW b \in chain \cup {Tip}, Query(b)
  PROVE  CInv'
<1>1. /\ OnMain(b) /\ Remember(b, SnapshotOf(b))
      /\ UNCHANGED <<chain, head, base, batch, proposals, work>>
  BY DEF Query
<1>2. Listed(b)
  BY Before DEF Tip
<1>3. \A e \in recents' \cup disk' : True(e) /\ Listed(e.block) /\ e.snap # NoSnapshot
  BY <1>1, <1>2, EntriesKept
<1>4. ProposalsOK'
  BY <1>1, Before DEF ProposalsOK
<1> QED BY <1>1, <1>3, <1>4, Before, Combine

\* The operator changes its proposals.
LEMMA ProposeKeeps ==
  ASSUME CInv, NEW v \in Proposable, Propose(v[1], v[2]) \/ Discard(v[1])
  PROVE  CInv'
<1>1. UNCHANGED <<chain, head, base, batch, recents, disk, work>>
  BY DEF Propose, Discard
<1>2. v[1] \in Address /\ v[2] \in Nonce /\ v = <<v[1], v[2]>> /\ v \in Ballots
  <2>1. v \in Ballots /\ v \in Address \X Nonce
    BY EngineAssumption
  <2> QED BY <2>1
<1>3. proposals' = [proposals EXCEPT ![v[1]] = v[2]] \/ proposals' = [proposals EXCEPT ![v[1]] = "none"]
  BY DEF Propose, Discard
<1>4. ProposalsOK'
  BY <1>2, <1>3, Before DEF ProposalsOK
<1> QED BY <1>1, <1>4, Before, Combine

\* Prepare puts a vote that makes sense, or none, on top of the head.
LEMMA PrepareKeeps ==
  ASSUME CInv, Prepare
  PROVE  CInv'
<1> DEFINE s == SnapshotOf(head)
<1>1. /\ s # NoSnapshot /\ Remember(head, s)
      /\ UNCHANGED <<chain, head, base, batch, proposals>>
  BY DEF Prepare
<1>2. PICK v \in Castable(s) :
        work' = Append(head, [signer |-> Local, coinbase |-> v[1], nonce |-> v[2], extra |-> Extra(s)])
  BY DEF Prepare
<1>3. head \in chain /\ head \in Seq(Sealed) /\ Listed(head)
  BY Before
<1>4. OnMain(head)
  BY DEF OnMain
<1>5. True([block |-> head, snap |-> s])
  BY <1>3, <1>4, Before, ResultTrue
<1> HIDE DEF s
<1>6. s.signers \subseteq Address
  <2>1. PICK k \in 0..Len(head) : Checkpoint(k) /\ s = Replay(head, k)
    BY <1>5 DEF True
  <2> QED BY <1>1, <1>3, <2>1, ReplaySigners
<1> DEFINE h == [signer |-> Local, coinbase |-> v[1], nonce |-> v[2], extra |-> Extra(s)]
<1>7. /\ v[1] \in Address /\ v[2] \in Nonce /\ (v[1] = ZeroAddress => v[2] = "drop")
      /\ Checkpoint(Number(s)) => v[1] = ZeroAddress /\ v[2] = "drop"
  <2>1. CASE v = <<ZeroAddress, "drop">>
    BY <2>1, AddressAssumption DEF Nonce
  <2>2. CASE v \in Useful(s) /\ ~Checkpoint(Number(s))
    <3>1. PICK a \in Address : proposals[a] # "none" /\ v = <<a, proposals[a]>>
      BY <2>2 DEF Useful
    <3>2. v \in Ballots /\ proposals[a] \in Nonce
      BY <3>1, Before DEF ProposalsOK
    <3>3. v[1] = ZeroAddress => v[2] = "drop"
      BY <3>1, <3>2, ZeroAssumption DEF Nonce
    <3> QED BY <2>2, <3>1, <3>2, <3>3
  <2> QED BY <1>2, <2>1, <2>2 DEF Castable
<1>8. Proper(h)
  <2>1. Extra(s) \subseteq Address /\ Local \in Address
    BY <1>6, EngineAssumption DEF Extra
  <2> QED BY <1>7, <2>1 DEF Proper, Sealed
<1>9. Checkpoint(Number(s)) => h.coinbase = ZeroAddress /\ h.nonce = "drop" /\ h.extra = s.signers
  BY <1>7 DEF Extra
<1> HIDE DEF h
<1>10. Listed(Append(head, h))
  BY <1>1, <1>3, <1>5, <1>8, <1>9, ListedAppend
<1>11. work' = Append(head, h)
  BY <1>2 DEF h
<1>12. Front(work') = head
  <2>1. h \in Sealed
    BY <1>8 DEF Proper
  <2> DEFINE w == Append(head, h)
  <2>2. w \in Seq(Sealed) /\ Len(w) = Len(head) + 1 /\ \A i \in 1..Len(head) : w[i] = head[i]
    BY <1>3, <2>1
  <2> HIDE DEF w
  <2>3. Len(w) - 1 = Len(head) /\ Len(head) \in 0..Len(w)
    BY <1>3, <2>2
  <2>4. /\ SubSeq(w, 1, Len(head)) \in Seq(Sealed) /\ Len(SubSeq(w, 1, Len(head))) = Len(head)
        /\ \A i \in 1..Len(head) : SubSeq(w, 1, Len(head))[i] = w[i]
    BY <2>2, <2>3, Ancestor
  <2>5. SubSeq(w, 1, Len(head)) = head
    BY <1>3, <2>2, <2>4, SameSeq
  <2> QED BY <1>11, <2>3, <2>5 DEF Front, w
<1>13. \A e \in recents' \cup disk' : True(e) /\ Listed(e.block) /\ e.snap # NoSnapshot
  BY <1>1, <1>3, <1>4, EntriesKept DEF s
<1>14. ProposalsOK'
  BY <1>1, Before DEF ProposalsOK
<1> QED BY <1>1, <1>3, <1>10, <1>11, <1>12, <1>13, <1>14, Before, Combine

\* Seal, whose snapshot is of the parent it was prepared on.
LEMMA SealKeeps ==
  ASSUME CInv, Seal \/ NotSealed
  PROVE  CInv'
<1> DEFINE b == Front(work)
<1>1. /\ work # Genesis /\ OnMain(b) /\ Remember(b, SnapshotOf(b))
      /\ work' = Genesis /\ UNCHANGED <<base, batch, proposals>>
      /\ \/ chain' = chain /\ head' = head
         \/ chain' = chain \cup {work} /\ head' \in {head, work}
  BY DEF Seal, NotSealed
<1>2. b \in chain /\ Listed(b)
  BY <1>1, Before
<1> HIDE DEF b
<1>3. \A e \in recents' \cup disk' : True(e) /\ Listed(e.block) /\ e.snap # NoSnapshot
  BY <1>1, <1>2, EntriesKept
<1>4. chain \subseteq chain' /\ head' \in chain' /\ \A c \in chain' : Listed(c)
  BY <1>1, Before
<1>5. ProposalsOK'
  BY <1>1, Before DEF ProposalsOK
<1>6. Listed(work')
  BY <1>1, ListedGenesis
<1> QED BY <1>1, <1>3, <1>4, <1>5, <1>6, Before, Combine

\* A node starts with the genesis block.
LEMMA Initially == Init => CInv
<1> SUFFICES ASSUME Init PROVE CInv
  OBVIOUS
<1>1. /\ chain = {Genesis} /\ head = Genesis /\ base = Genesis /\ batch = <<>>
      /\ recents = {} /\ disk = {} /\ proposals = [a \in Address |-> "none"] /\ work = Genesis
  BY DEF Init
<1>2. Listed(Genesis) /\ Listed(Genesis \o <<>>) /\ <<>> \in Seq(Sealed) /\ Genesis = <<>>
  BY ListedGenesis
<1>3. Typed
  BY <1>1, <1>2 DEF Typed
<1>4. \A b \in Known : Listed(b)
  BY <1>1, <1>2 DEF Known
<1>5. ProposalsOK
  BY <1>1 DEF ProposalsOK
<1> QED BY <1>1, <1>3, <1>4, <1>5 DEF CInv, SnapshotsTrue

\* Every step keeps the invariant.
LEMMA Stepwise == CInv /\ [Next]_vars => CInv'
<1> SUFFICES ASSUME CInv, [Next]_vars PROVE CInv'
  OBVIOUS
<1>1. CASE UNCHANGED vars
  <2>1. UNCHANGED <<chain, head, base, batch, recents, disk, proposals, work>>
    BY <1>1 DEF vars
  <2>2. ProposalsOK'
    BY <2>1, Before DEF ProposalsOK
  <2> QED BY <2>1, <2>2, Before, Combine
<1> QED BY <1>1, VerifyKeeps, InsertKeeps, AbortKeeps, QueryKeeps, ProposeKeeps, PrepareKeeps, SealKeeps
        DEF Next

\* The engine always satisfies CInv.
THEOREM EngineInvariant == Spec => []CInv
BY Initially, Stepwise, PTL DEF Spec

\* Reorganisations, evictions, restarts and the order of verification never make
\* a difference to a snapshot in memory or on disk.
THEOREM SnapshotsStayTrue == Spec => []SnapshotsTrue
<1>1. CInv => SnapshotsTrue
  BY DEF CInv
<1> QED BY <1>1, EngineInvariant, PTL

\* A checkpoint taken on trust loses only who signed recently.
THEOREM TrustLosesNoVotes == Spec => []TrustKeepsVotes
<1>1. ASSUME CInv PROVE TrustKeepsVotes
  <2> SUFFICES ASSUME NEW e \in recents \cup disk, Truth(e.block) # NoSnapshot
               PROVE  Same(e.snap, Truth(e.block))
    BY DEF TrustKeepsVotes, Same
  <2>1. True(e) /\ Listed(e.block) /\ e.snap # NoSnapshot
    BY <1>1, Before
  <2> DEFINE b == e.block
  <2>2. PICK k \in 0..Len(b) : Checkpoint(k) /\ e.snap = Replay(b, k)
    BY <2>1 DEF True
  <2> HIDE DEF b
  <2>3. Same(Replay(b, k), Truth(b))
    BY <2>1, <2>2, ReplaysSame DEF b
  <2> QED BY <2>2, <2>3 DEF b
<1> QED BY <1>1, EngineInvariant, PTL
=============================================================================
