------------------------------ MODULE MCServer ------------------------------
EXTENDS Server

CONSTANTS n1, n2

MCNode == {n1, n2}
MCInbound == {n1}
MCStatic == {n1, n2}
MCFound == {n2}
MCTrusted == {}
=============================================================================
