--------------------------- MODULE MCProviderNode ---------------------------
EXTENDS Gf256, PayloadShares

\* We cost 10; peer 1 is cheap enough to win, the others are not.
LocalPrice == [p \in 0..NumPeers |-> IF p = 1 THEN 4 ELSE 10]
=============================================================================
