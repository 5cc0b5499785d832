--------------------------- MODULE MCTxFetcherNode ---------------------------
(* Instances of TxFetcherNode for TLC. *)
EXTENDS TxFetcherNode

MCSmall == [kind |-> 2, size |-> 1]
MCLie   == [kind |-> 3, size |-> 1]
MCTwoMetas == {MCSmall, MCLie}
MCTxMeta == [h \in Hash |-> MCSmall]
=============================================================================
