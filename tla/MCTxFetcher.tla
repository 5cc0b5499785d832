----------------------------- MODULE MCTxFetcher -----------------------------
(* Instances of TxFetcher for TLC. *)
EXTENDS TxFetcher

\* What peers announce is true of all transactions but one.
MCSmall == [kind |-> 2, size |-> 1]
MCLarge == [kind |-> 2, size |-> 10]
MCOneMeta == {MCSmall}
MCTxMeta == [h \in Hash |-> IF h = CHOOSE x \in Hash : TRUE THEN MCLarge ELSE MCSmall]
=============================================================================
