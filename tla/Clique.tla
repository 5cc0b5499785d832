------------------------------- MODULE Clique -------------------------------
(***************************************************************************)
(* consensus/clique/clique.go: the engine of one node.  It verifies        *)
(* batches of headers of any fork, votes and seals on the head, and keeps  *)
(* voting snapshots in an LRU cache and, at checkpoints, on disk.          *)
(*                                                                         *)
(* A block is the sequence of headers from the genesis block (the empty    *)
(* sequence) to it, so its hash commits to its ancestors.  The database of *)
(* headers and the choice of the head are the blockchain's: here the head  *)
(* may move to any block that is inserted.                                 *)
(***************************************************************************)
EXTENDS CliqueSnapshot, Sequences, SequencesExt

CONSTANTS
  Local,                   \* the account this node signs with; it does not mine with ZeroAddress
  Ballots,                 \* bound: the <<coinbase, nonce>> of headers
  Proposable,              \* bound: the ones the operator proposes
  CheckpointInterval,      \* checkpointInterval
  InmemorySnapshots,       \* inmemorySnapshots: size of the cache
  ImmutabilityThreshold,   \* params.FullImmutabilityThreshold
  NoSnapshot,              \* an error in place of a snapshot
  MaxBlocks                \* bound on the blocks the node has or has snapshots of

ASSUME EngineAssumption ==
  /\ Local \in Address /\ NoSnapshot \notin Snapshot
  /\ Proposable \subseteq Ballots /\ Ballots \subseteq Address \X Nonce
  /\ CheckpointInterval \in Nat \ {0} /\ InmemorySnapshots \in Nat \ {0}
  /\ ImmutabilityThreshold \in Nat
  /\ MaxBlocks \in Nat

\* Nobody makes the zero address a signer: the header of a checkpoint, which names it
\* and the nonce "drop", would then be a vote.
ASSUME ZeroAssumption == ZeroAddress \notin GenesisSigners /\ <<ZeroAddress, "auth">> \notin Ballots

VARIABLES
  chain,       \* blocks in the database
  head,        \* the canonical head
  base,        \* the block a batch of headers is verified on top of
  batch,       \* headers of it that passed and are not inserted yet
  recents,     \* c.recents: snapshots in memory
  disk,        \* snapshots in the database
  proposals,   \* c.proposals: account -> vote
  work         \* the block being sealed; Genesis when there is none

vars == <<chain, head, base, batch, recents, disk, proposals, work>>

Genesis == <<>>
Sealed  == [signer : Address, coinbase : Address, nonce : Nonce, extra : SUBSET Address]
Entry   == [block : Seq(Sealed), snap : Snapshot]

TypeOK ==
  /\ chain \subseteq Seq(Sealed) /\ head \in chain
  /\ base \in chain /\ batch \in Seq(Sealed)
  /\ recents \subseteq Entry /\ Cardinality(recents) <= InmemorySnapshots
  /\ disk \subseteq Entry
  /\ proposals \in [Address -> Nonce \cup {"none"}]
  /\ work \in Seq(Sealed) /\ (work # Genesis => Front(work) \in chain)

Init ==
  /\ chain = {Genesis} /\ head = Genesis
  /\ base = Genesis /\ batch = <<>>
  /\ recents = {} /\ disk = {}
  /\ proposals = [a \in Address |-> "none"]
  /\ work = Genesis

-----------------------------------------------------------------------------
(***************************************************************************)
(* snapshot                                                                *)
(***************************************************************************)
Lookup(entries, block) == {e \in entries : e.block = block}

\* apply a list of headers, or fail.
ApplyAll(snap, headers) ==
  LET applied[n \in 0 .. Len(headers)] ==
        IF n = 0 THEN snap
        ELSE LET s == applied[n - 1]
             IN IF s # NoSnapshot /\ MaySign(s, headers[n].signer) THEN Apply(s, headers[n])
                ELSE NoSnapshot
  IN applied[Len(headers)]

\* The search from a block backwards takes the canonical block of a number as a
\* checkpoint when it is genesis, or an epoch block below more headers than may be
\* reorganised.
Trusted(number, piled) ==
  /\ number = 0 \/ (Checkpoint(number) /\ piled > ImmutabilityThreshold)
  /\ number <= Len(head)

\* newSnapshot of the signers listed in its extra data.
CheckpointEntry(number) ==
  [block |-> SubSeq(head, 1, number),
   snap  |-> NewSnapshot(number, IF number = 0 THEN GenesisSigners ELSE head[number].extra)]

OnDisk(block) == IF Len(block) % CheckpointInterval = 0 THEN Lookup(disk, block) ELSE {}

\* The search stops at the latest ancestor that has a snapshot.
Found(block, n) ==
  \/ Lookup(recents, SubSeq(block, 1, n)) # {}
  \/ OnDisk(SubSeq(block, 1, n)) # {}
  \/ Trusted(n, Len(block) - n)

SearchFrom(block) == Max({n \in 0..Len(block) : Found(block, n)})

\* The snapshot found: in memory, else on disk, else made from the checkpoint.
Start(block) ==
  LET number == SearchFrom(block)
      here   == SubSeq(block, 1, number)
      saved  == IF Lookup(recents, here) # {} THEN Lookup(recents, here) ELSE OnDisk(here)
  IN IF saved # {} THEN CHOOSE e \in saved : TRUE ELSE CheckpointEntry(number)

\* What snapshot returns: the headers after it, applied to a copy.
Gathered(block) == SubSeq(block, SearchFrom(block) + 1, Len(block))
SnapshotOf(block) == ApplyAll(Start(block).snap, Gathered(block))

\* Put replaces the entry of a block; the cache then drops another one when full.
Put(entries, e) == {x \in entries : x.block # e.block} \cup {e}
Cached(e) ==
  LET all == Put(recents, e)
  IN IF Cardinality(all) <= InmemorySnapshots THEN {all} ELSE {all \ {x} : x \in all \ {e}}

\* The block the result is filed under: the last header applied, or where the
\* search ended.
Filed(block) == IF Gathered(block) = <<>> THEN Start(block).block ELSE block

BugStored(block, result) == Put(disk, [block |-> Filed(block), snap |-> Start(block).snap])

\* A checkpoint taken on trust and a new result at the interval go to disk.
Stored(block, result) ==
  LET start == Start(block)
      held  == start \in recents \cup OnDisk(start.block)
      first == IF held THEN disk ELSE Put(disk, start)
  IN IF result # NoSnapshot /\ Len(block) % CheckpointInterval = 0 /\ Gathered(block) # <<>>
       THEN Put(first, [block |-> block, snap |-> result])
       ELSE first

\* snapshot(block) and its result as a step: what it leaves in memory and on disk.
Remember(block, result) ==
  /\ IF result = NoSnapshot THEN recents' = recents
     ELSE recents' \in Cached([block |-> Filed(block), snap |-> result])
  /\ disk' = Stored(block, result)

-----------------------------------------------------------------------------
(* Verification of headers. *)
Tip == base \o batch
Room == Cardinality(chain \cup {e.block : e \in disk}) + Len(batch) < MaxBlocks

\* A checkpoint block lists the signers, other blocks list none.
Extra(s) == IF Checkpoint(Number(s)) THEN s.signers ELSE {}

Headers == {[signer |-> s, coinbase |-> v[1], nonce |-> v[2], extra |-> x] :
              s \in Address, v \in Ballots, x \in SUBSET Address}

BugVerified(s, h) ==
  (Checkpoint(Number(s)) \/ h.extra = {}) /\ VerifyHeader(s, h) /\ VerifySeal(s, h)
Verified(s, h) == h.extra = Extra(s) /\ VerifyHeader(s, h) /\ VerifySeal(s, h)

\* Blocks below the segment that may be reorganised count as immutable: a fork
\* does not start there.
Reorgable(block) == IsPrefix(SubSeq(head, 1, Len(head) - ImmutabilityThreshold), block)

\* Nor does it grow to more headers than may be reorganised: nobody asks about a
\* block with so many of them off the canonical chain.
OnMain(block) ==
  \A n \in 1..Len(head) : n < Len(block) - ImmutabilityThreshold => block[n] = head[n]

\* VerifyHeaders: a batch starts with a header on some block of the database and
\* goes on with one on top of those that passed.
VerifyNext(block) ==
  /\ batch # <<>> => block = base
  /\ Reorgable(block) /\ OnMain(block \o batch)
  /\ Len(block \o batch) < MaxNumber /\ Room
  /\ \E s \in {SnapshotOf(block \o batch)} \ {NoSnapshot} :
        /\ Remember(block \o batch, s)
        /\ \E h \in Headers : Verified(s, h) /\ batch' = Append(batch, h)
  /\ base' = block
  /\ UNCHANGED <<chain, head, proposals, work>>

\* The blockchain inserts what passed and may make it the head, or gives it up.
Insert ==
  /\ batch # <<>> /\ Reorgable(base)
  /\ chain' = chain \cup {base \o SubSeq(batch, 1, n) : n \in 1..Len(batch)}
  /\ head' \in {head, Tip}
  /\ batch' = <<>> /\ base' = Genesis
  /\ UNCHANGED <<recents, disk, proposals, work>>

Abort ==
  /\ batch # <<>>
  /\ batch' = <<>> /\ base' = Genesis
  /\ UNCHANGED <<chain, head, recents, disk, proposals, work>>

\* A header on block that is refused, the API or CalcDifficulty.
Query(block) ==
  /\ OnMain(block) /\ Remember(block, SnapshotOf(block))
  /\ UNCHANGED <<chain, head, base, batch, proposals, work>>

-----------------------------------------------------------------------------
(* Voting and sealing. *)
Propose(a, vote) ==
  /\ proposals' = [proposals EXCEPT ![a] = vote]
  /\ UNCHANGED <<chain, head, base, batch, recents, disk, work>>

Discard(a) ==
  /\ proposals' = [proposals EXCEPT ![a] = "none"]
  /\ UNCHANGED <<chain, head, base, batch, recents, disk, work>>

\* The proposals that make sense on top of snapshot s.
Useful(s) == {<<a, proposals[a]>> : a \in {a \in Address : proposals[a] # "none" /\ ValidVote(s.signers, a, proposals[a])}}

\* Prepare casts one of them, except on a checkpoint.
Castable(s) == IF Checkpoint(Number(s)) \/ Useful(s) = {} THEN {<<ZeroAddress, "drop">>} ELSE Useful(s)

Prepare ==
  /\ Local # ZeroAddress /\ work = Genesis /\ Len(head) < MaxNumber /\ Room
  /\ LET s == SnapshotOf(head)
     IN /\ s # NoSnapshot
        /\ \E v \in Castable(s) :
             work' = Append(head, [signer |-> Local, coinbase |-> v[1], nonce |-> v[2],
                                   extra |-> Extra(s)])
        /\ Remember(head, s)
  /\ UNCHANGED <<chain, head, base, batch, proposals>>

BugMaySealNow(s) == Local \in s.signers
MaySealNow(s) == MaySeal(s, Local)

\* Seal signs the block, unless the signer is not authorized or signed recently,
\* and the miner writes it; or it is told to stop while it waits for its time.
Seal ==
  /\ work # Genesis /\ Reorgable(work) /\ OnMain(Front(work)) /\ Room
  /\ LET s == SnapshotOf(Front(work))
     IN s # NoSnapshot /\ MaySealNow(s) /\ Remember(Front(work), s)
  /\ chain' = chain \cup {work}
  /\ head' \in {head, work}
  /\ work' = Genesis
  /\ UNCHANGED <<base, batch, proposals>>

NotSealed ==
  /\ work # Genesis /\ OnMain(Front(work)) /\ work' = Genesis
  /\ Remember(Front(work), SnapshotOf(Front(work)))
  /\ UNCHANGED <<chain, head, base, batch, proposals>>

-----------------------------------------------------------------------------
\* The process restarts, at any point: memory is lost.
Restart ==
  /\ recents' = {} /\ base' = Genesis /\ batch' = <<>>
  /\ proposals' = [a \in Address |-> "none"] /\ work' = Genesis
  /\ UNCHANGED <<chain, head, disk>>

Next ==
  \/ \E block \in chain : VerifyNext(block)
  \/ Insert \/ Abort
  \/ \E block \in chain \cup {Tip} : Query(block)
  \/ \E v \in Proposable : Propose(v[1], v[2]) \/ Discard(v[1])
  \/ Prepare \/ Seal \/ NotSealed
  \/ Restart

Spec == Init /\ [][Next]_vars

-----------------------------------------------------------------------------
(* Properties *)

\* The snapshot of a block as computed from its ancestor number n, and as every
\* node computes it from genesis.
Replay(block, n) ==
  ApplyAll(NewSnapshot(n, IF n = 0 THEN GenesisSigners ELSE block[n].extra),
           SubSeq(block, n + 1, Len(block)))
Truth(block) == Replay(block, 0)

\* Snapshots in memory and on disk are those of their blocks, replayed from
\* genesis or from an epoch block among their ancestors: reorganisations,
\* evictions, restarts and the order of verification never make a difference.
SnapshotsTrue ==
  \A e \in recents \cup disk :
    \E n \in 0..Len(e.block) : Checkpoint(n) /\ e.snap = Replay(e.block, n)

\* Every block of the node, imported or sealed by it, is one that nodes which
\* replay the chain from genesis accept: signed by a signer whose turn it may be,
\* and at an epoch it carries no vote and lists the signers of that moment.
ChainReplays ==
  \A block \in (chain \cup {e.block : e \in recents \cup disk}) \ {Genesis} :
    /\ Truth(block) # NoSnapshot
    /\ Checkpoint(Len(block)) =>
         /\ Last(block).coinbase = ZeroAddress
         /\ Last(block).extra = Truth(Front(block)).signers

\* A checkpoint taken on trust loses only who signed recently: signers, votes and
\* tally are the ones of a full replay, in every snapshot made from it.
TrustKeepsVotes ==
  \A e \in recents \cup disk :
    LET t == Truth(e.block)
    IN t # NoSnapshot =>
         /\ e.snap.signers = t.signers /\ e.snap.votes = t.votes /\ e.snap.tally = t.tally
         /\ e.snap.recents \subseteq t.recents
=============================================================================
