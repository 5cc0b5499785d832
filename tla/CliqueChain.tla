----------------------------- MODULE CliqueChain -----------------------------
(***************************************************************************)
(* One chain of a clique network, block by block: every header that the    *)
(* engine's verification accepts may come next, from any signer and with   *)
(* any vote.                                                               *)
(***************************************************************************)
EXTENDS CliqueSnapshot

VARIABLES
  snap,      \* snapshot of the last block that has one
  dead       \* the chain has a block whose snapshot cannot be computed

chainVars == <<snap, dead>>

ChainTypeOK == snap \in Snapshot /\ dead \in BOOLEAN

ChainInit == snap = NewSnapshot(0, GenesisSigners) /\ dead = FALSE

Accepted(h) == VerifyHeader(snap, h) /\ VerifySeal(snap, h)

\* A header is verified against the snapshot of its parent, and applied when
\* its child is verified.
Extend(h) ==
  /\ ~dead /\ snap.number < MaxNumber
  /\ Accepted(h) /\ MaySign(snap, h.signer)
  /\ snap' = Apply(snap, h) /\ UNCHANGED dead

\* apply fails: no block can follow this one.
Bury(h) ==
  /\ ~dead /\ snap.number < MaxNumber
  /\ Accepted(h) /\ ~MaySign(snap, h.signer)
  /\ dead' = TRUE /\ UNCHANGED snap

ChainNext == \E h \in Header : Extend(h) \/ Bury(h)
ChainSpec == ChainInit /\ [][ChainNext]_chainVars

-----------------------------------------------------------------------------
(* Properties *)

About(votes, a) == {v \in votes : v.address = a}

\* The cached tally is the count of the votes in the list: discarding votes of
\* the same signer, of a removed signer, about a changed account and at an epoch
\* keeps the two in step, and all votes about an account ask for the same change.
TallyCounts ==
  \A a \in Address :
    /\ snap.tally[a].votes = Cardinality(About(snap.votes, a))
    /\ \A v \in About(snap.votes, a) :
         /\ v.authorize = snap.tally[a].authorize
         /\ ValidVote(snap.signers, a, v.authorize)

\* Only current signers have votes, and one per account.
OneVoteEach ==
  \A v \in snap.votes :
    /\ v.signer \in snap.signers
    /\ \A w \in snap.votes : v.signer = w.signer /\ v.address = w.address => v = w

\* What decides about a proposal is a count of distinct signers: the tally is the
\* number of votes, and no signer has two of them, nor a removed one any.
VotesCounted == TallyCounts /\ OneVoteEach

\* The recent signers are those of the last Limit-1 blocks at most, whatever the
\* number of signers was when they signed, and no signer is there twice: of any
\* Limit consecutive blocks no two have the same signer.
RecentsWindow ==
  \A r \in snap.recents :
    /\ snap.number - Limit(snap.signers) < r.block /\ r.block <= snap.number
    /\ \A q \in snap.recents : q.signer = r.signer => q = r

\* The signer list changes by one account, and only when more than half of the
\* signers voted for it; votes of those who lost their right do not count.
MajorityChanges ==
  [][snap'.signers # snap.signers =>
       \E a \in Address :
         /\ snap'.signers \in {snap.signers \cup {a}, snap.signers \ {a}}
         /\ \E electors \in SUBSET snap.signers :
              /\ Cardinality(electors) * 2 > Cardinality(snap.signers)
              /\ \A s \in electors :
                   \/ \E v \in Pending(snap) : v.signer = s /\ v.address = a
                   \/ \E r \in snap'.recents : r = [block |-> snap'.number, signer |-> s]]_chainVars

\* Somebody may sign the next block as long as there are signers: the window of
\* recent signers never blocks all of them.
SomeoneMaySign == snap.signers # {} => \E s \in snap.signers : MaySign(snap, s)

\* The three places that decide whether a signer signed recently agree from the
\* first block on at which the window is full.
ChecksAgree ==
  \A s \in Address :
    /\ MaySeal(snap, s) => MaySign(snap, s)
    /\ Number(snap) >= Limit(snap.signers) =>
         \A h \in Header : h.signer = s => (VerifySeal(snap, h) <=> MaySign(snap, s))

\* "Signer is among recents, only fail if the current block doesn't shift it out"
\* (clique.go:494): a signer that is not shifted out is refused, so that every
\* block that is accepted can be built upon.
AcceptedLives == ~dead
=============================================================================
