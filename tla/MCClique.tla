------------------------------ MODULE MCClique ------------------------------
(* Instances of Clique for TLC. *)
EXTENDS Clique

NoVote == <<ZeroAddress, "drop">>

\* No vote, and votes that add another signer or remove it.
MCBallots == {NoVote} \cup ((Address \ {Local, ZeroAddress}) \X Nonce)

\* The operator of the node wants the other signer.
MCProposable == (Address \ {Local, ZeroAddress}) \X {"auth"}
=============================================================================
