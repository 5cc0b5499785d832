---------------------------- MODULE CliqueSnapshot ----------------------------
(***************************************************************************)
(* consensus/clique/snapshot.go: the voting of a proof-of-authority chain  *)
(* as a function of its headers.  A snapshot is a record; the operators    *)
(* compute the snapshot of a block from the snapshot of its parent.        *)
(*                                                                         *)
(* A header is the signer its seal recovers to, the account it votes on    *)
(* (Coinbase) and the direction of the vote (Nonce).  The chronological    *)
(* list of votes is the set of its entries: a block casts at most one      *)
(* vote, so the block number orders them.                                  *)
(***************************************************************************)
EXTENDS Integers, FiniteSets

CONSTANTS
  Address,          \* accounts
  ZeroAddress,      \* the coinbase of a block without a vote
  GenesisSigners,   \* the signers of the genesis block
  Epoch,            \* config.Epoch: every so many blocks pending votes are reset
  Word,             \* 2^64, the modulus of the block number arithmetic
  MaxNumber         \* bound on block numbers

ASSUME AddressAssumption == IsFiniteSet(Address) /\ ZeroAddress \in Address
ASSUME EpochAssumption == Epoch \in Nat \ {0} /\ Word \in Nat \ {0}
ASSUME GenesisAssumption == GenesisSigners \subseteq Address
ASSUME NumberAssumption == MaxNumber \in Nat /\ MaxNumber < Word   \* block numbers fit a word

Nonce    == {"auth", "drop"}
Header   == [signer : Address, coinbase : Address, nonce : Nonce]
Vote     == [signer : Address, block : Nat, address : Address, authorize : Nonce]
Recent   == [block : Nat, signer : Address]
NoTally  == [authorize |-> "none", votes |-> 0]
Tally    == [authorize : Nonce, votes : Nat \ {0}] \cup {NoTally}
Snapshot == [number : Nat, signers : SUBSET Address, recents : SUBSET Recent,
             votes : SUBSET Vote, tally : [Address -> Tally]]

\* newSnapshot
NewSnapshot(number, signers) ==
  [number |-> number, signers |-> signers, recents |-> {}, votes |-> {},
   tally |-> [a \in Address |-> NoTally]]

\* A signer may sign one of so many consecutive blocks.
Limit(signers) == Cardinality(signers) \div 2 + 1

\* Forget who signed the block that leaves the window of block number.
Shift(recents, number, limit) == {r \in recents : r.block # number - limit}

Checkpoint(number) == number % Epoch = 0

-----------------------------------------------------------------------------
(* The tally of votes. *)

ValidVote(signers, address, authorize) == (authorize = "auth") <=> (address \notin signers)

\* cast
Cast(tally, address, authorize) ==
  [tally EXCEPT ![address] =
     IF @.votes > 0 THEN [authorize |-> @.authorize, votes |-> @.votes + 1]
                    ELSE [authorize |-> authorize, votes |-> 1]]

\* uncast for every vote of a set: a tally that runs out of votes is deleted.
Uncast(tally, gone) ==
  [a \in Address |->
     LET n == Cardinality({v \in gone : v.address = a /\ v.authorize = tally[a].authorize})
     IN IF n = 0 THEN tally[a]
        ELSE IF tally[a].votes > n THEN [authorize |-> tally[a].authorize, votes |-> tally[a].votes - n]
        ELSE NoTally]

-----------------------------------------------------------------------------
(***************************************************************************)
(* apply, for one header h on top of snapshot s                            *)
(***************************************************************************)
Number(s) == s.number + 1

\* Who signed recently once the oldest entry is shifted out.
BugRecents(s) == s.recents
Recents(s) == Shift(s.recents, Number(s), Limit(s.signers))

\* Neither errUnauthorizedSigner nor errRecentlySigned.
MaySign(s, signer) == signer \in s.signers /\ \A r \in Recents(s) : r.signer # signer

\* The votes that are pending before the header's own one: none on a checkpoint.
Pending(s)      == IF Checkpoint(Number(s)) THEN {} ELSE s.votes
PendingTally(s) == IF Checkpoint(Number(s)) THEN [a \in Address |-> NoTally] ELSE s.tally

\* The first vote of the signer on the same account is discarded.
Superseded(s, h) ==
  LET old == {v \in Pending(s) : v.signer = h.signer /\ v.address = h.coinbase}
  IN {v \in old : \A w \in old : v.block <= w.block}

\* The vote of the header itself, when it is meaningful.
Ballot(s, h) ==
  IF ValidVote(s.signers, h.coinbase, h.nonce)
    THEN {[signer |-> h.signer, block |-> Number(s), address |-> h.coinbase, authorize |-> h.nonce]}
    ELSE {}

Votes(s, h) == (Pending(s) \ Superseded(s, h)) \cup Ballot(s, h)

BugTallyOf(s, h) ==
  IF Ballot(s, h) # {} THEN Cast(PendingTally(s), h.coinbase, h.nonce) ELSE PendingTally(s)
TallyOf(s, h) ==
  LET left == Uncast(PendingTally(s), Superseded(s, h))
  IN IF Ballot(s, h) # {} THEN Cast(left, h.coinbase, h.nonce) ELSE left

\* The proposal about the header's account has more than half of the signers.
BugPassed(s, h) == TallyOf(s, h)[h.coinbase].votes >= Cardinality(s.signers) \div 2
Passed(s, h) == TallyOf(s, h)[h.coinbase].votes > Cardinality(s.signers) \div 2
Dropped(s, h) == Passed(s, h) /\ TallyOf(s, h)[h.coinbase].authorize = "drop"

Signers(s, h) ==
  IF Dropped(s, h) THEN s.signers \ {h.coinbase}
  ELSE IF Passed(s, h) THEN s.signers \cup {h.coinbase} ELSE s.signers

\* Votes a deauthorized signer cast.
Orphaned(s, h) == IF Dropped(s, h) THEN {v \in Votes(s, h) : v.signer = h.coinbase} ELSE {}

BugNewRecents(s, h) ==
  {r \in Recents(s) : r.block # Number(s)} \cup {[block |-> Number(s), signer |-> h.signer]}

\* The signer joins the recent ones; a shorter signer list has a shorter window.
NewRecents(s, h) ==
  LET all == {r \in Recents(s) : r.block # Number(s)} \cup {[block |-> Number(s), signer |-> h.signer]}
  IN IF Dropped(s, h) THEN Shift(all, Number(s), Limit(Signers(s, h))) ELSE all

Apply(s, h) ==
  [number  |-> Number(s),
   signers |-> Signers(s, h),
   recents |-> NewRecents(s, h),
   votes   |-> {v \in Votes(s, h) \ Orphaned(s, h) : Passed(s, h) => v.address # h.coinbase},
   tally   |-> [a \in Address |-> IF Passed(s, h) /\ a = h.coinbase THEN NoTally
                                  ELSE Uncast(TallyOf(s, h), Orphaned(s, h))[a]]]

-----------------------------------------------------------------------------
(***************************************************************************)
(* What the engine asks of a header on top of a snapshot.                  *)
(***************************************************************************)

\* verifyHeader: a checkpoint block carries no vote.
VerifyHeader(s, h) == Checkpoint(Number(s)) => h.coinbase = ZeroAddress /\ h.nonce = "drop"

BugVerifySeal(s, h) ==
  /\ h.signer \in s.signers
  /\ \A r \in s.recents :
       r.signer = h.signer => r.block < (Number(s) - Limit(s.signers)) % Word

\* verifySeal; number-limit is an unsigned difference.
VerifySeal(s, h) ==
  /\ h.signer \in s.signers
  /\ \A r \in s.recents :
       r.signer = h.signer => r.block <= (Number(s) - Limit(s.signers)) % Word

\* Seal: the local signer does not have to wait for others.
MaySeal(s, signer) ==
  /\ signer \in s.signers
  /\ \A r \in s.recents :
       r.signer = signer => Number(s) >= Limit(s.signers) /\ r.block <= Number(s) - Limit(s.signers)
=============================================================================
