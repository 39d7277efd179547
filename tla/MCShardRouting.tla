--------------------------- MODULE MCShardRouting ---------------------------
(* ShardRouting for TLC: four providers started by run_local.sh.           *)
EXTENDS ShardRouting, TLC

CONSTANTS n1, n2, n3, n4, search, summarize, reason

\* Provider i has shard i.
LocalShards == n1 :> 1 @@ n2 :> 2 @@ n3 :> 3 @@ n4 :> 4

\* The capabilities repeat after three providers.
LocalCaps ==
    n1 :> {search} @@ n2 :> {summarize} @@ n3 :> {reason} @@ n4 :> {search}
=============================================================================
