--------------------------- MODULE MCLedgerGossip ---------------------------
(* LedgerGossip for TLC: the nodes are interchangeable.                    *)
EXTENDS LedgerGossip, TLC

Symmetry == Permutations(Node)
=============================================================================
