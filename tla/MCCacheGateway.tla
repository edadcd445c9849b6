--------------------------- MODULE MCCacheGateway ---------------------------
(***************************************************************************)
(* Instances of CacheGateway for TLC.                                      *)
(***************************************************************************)
EXTENDS CacheGateway

CONSTANTS k1, k2, t1, t2

MCKeys == {k1, k2}
MCThread == {t1}
MCThreads == {t1, t2}
MCPolicies == {"lru", "lfu", "fifo"}
=============================================================================
