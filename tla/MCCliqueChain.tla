---------------------------- MODULE MCCliqueChain ----------------------------
(* Instances of CliqueChain for TLC. *)
EXTENDS CliqueChain, TLC

\* Accounts other than the zero address are interchangeable when all or none of
\* them are signers at genesis.
MCSymmetry == Permutations(GenesisSigners) \cup Permutations(Address \ (GenesisSigners \cup {ZeroAddress}))
=============================================================================
